---------------------------- MODULE Spec2Model ----------------------------
(***************************************************************************)
(* Model of cline-batch-executor: the batch orchestrator                   *)
(* (startBatchProcessing), the per-file task driver (processFileWithCline),*)
(* the hook runner (executeHooks / evaluateCondition), the batch log and   *)
(* the dashboard notification.                                             *)
(*                                                                         *)
(* Strings that the code parses (hook conditions, hook commands) are       *)
(* sequences of one-character strings, so that split / includes / trim /   *)
(* parseInt are computed the way the code computes them.                   *)
(***************************************************************************)
EXTENDS Integers, Sequences, FiniteSets, TLC

(***************************************************************************)
(* Bounds of the model (not program constants).                            *)
(***************************************************************************)
\* largest number of files the selection dialog yields
MaxFiles == 2
\* largest value `git status --porcelain` reports
MaxModified == 1
\* largest value of a statistics field handed to evaluateCondition on its own
MaxCount == 2
\* largest number of dashboard panels created
MaxPanels == 2
\* largest number of messages posted to dashboard panels
MaxPosted == 3

(***************************************************************************)
(* Program constants.                                                      *)
(***************************************************************************)
\* processFileWithCline: const maxWaitTime = 10 * 60 * 1000
maxWaitTime == 10 * 60 * 1000
\* processFileWithCline: const checkInterval = 5000
checkInterval == 5000

(***************************************************************************)
(* JavaScript string primitives used by hookManager.ts.                    *)
(***************************************************************************)
\* s.substring(k - 1) with a 1-based k
From(s, k) == SubSeq(s, k, Len(s))

\* sub occurs in s at (1-based) position k
OccursAt(s, sub, k) ==
    /\ k >= 1
    /\ k + Len(sub) - 1 <= Len(s)
    /\ SubSeq(s, k, k + Len(sub) - 1) = sub

\* String.prototype.includes
includes(s, sub) == \E k \in 1..Len(s) : OccursAt(s, sub, k)

\* String.prototype.startsWith
startsWith(s, sub) == OccursAt(s, sub, 1)

\* position of the leftmost occurrence of sub in s (0 when there is none)
indexOf(s, sub) ==
    IF includes(s, sub)
    THEN CHOOSE k \in 1..Len(s) :
            OccursAt(s, sub, k) /\ \A j \in 1..(k - 1) : ~OccursAt(s, sub, j)
    ELSE 0

\* String.prototype.split with a non-empty separator
RECURSIVE split(_, _)
split(s, sep) ==
    IF ~includes(s, sep)
    THEN <<s>>
    ELSE LET k == indexOf(s, sep)
         IN  <<SubSeq(s, 1, k - 1)>> \o split(From(s, k + Len(sep)), sep)

\* the white space trim() and parseInt() strip
IsSpace(c) == c \in {" ", "\t"}

RECURSIVE trimStart(_)
trimStart(s) ==
    IF s # <<>> /\ IsSpace(Head(s)) THEN trimStart(Tail(s)) ELSE s

RECURSIVE trimEnd(_)
trimEnd(s) ==
    IF s # <<>> /\ IsSpace(s[Len(s)]) THEN trimEnd(SubSeq(s, 1, Len(s) - 1)) ELSE s

\* String.prototype.trim
trim(s) == trimEnd(trimStart(s))

Digits == {"0", "1", "2", "3", "4", "5", "6", "7", "8", "9"}

DigitValue(c) ==
    CASE c = "0" -> 0 [] c = "1" -> 1 [] c = "2" -> 2 [] c = "3" -> 3
      [] c = "4" -> 4 [] c = "5" -> 5 [] c = "6" -> 6 [] c = "7" -> 7
      [] c = "8" -> 8 [] c = "9" -> 9

\* the longest prefix of s made of decimal digits
RECURSIVE digitPrefix(_)
digitPrefix(s) ==
    IF s # <<>> /\ Head(s) \in Digits
    THEN <<Head(s)>> \o digitPrefix(Tail(s))
    ELSE <<>>

RECURSIVE digitsValue(_)
digitsValue(ds) ==
    IF ds = <<>> THEN 0
    ELSE 10 * digitsValue(SubSeq(ds, 1, Len(ds) - 1)) + DigitValue(ds[Len(ds)])

\* a JavaScript number that is either NaN or an integer
NaN == [nan |-> TRUE, val |-> 0]
Num(n) == [nan |-> FALSE, val |-> n]

\* parseInt(s): leading white space skipped, an optional sign, then the
\* longest run of decimal digits; NaN when there is no digit; whatever
\* follows the digits is ignored
parseInt(s) ==
    LET t    == trimStart(s)
        neg  == t # <<>> /\ Head(t) = "-"
        sgn  == t # <<>> /\ Head(t) \in {"-", "+"}
        body == IF sgn THEN Tail(t) ELSE t
        ds   == digitPrefix(body)
    IN  IF ds = <<>> THEN NaN
        ELSE Num(IF neg THEN 0 - digitsValue(ds) ELSE digitsValue(ds))

\* JavaScript comparisons of an integer with a parseInt result: every
\* ordering comparison with NaN is false, and v !== NaN is true
jsLt(v, p)  == ~p.nan /\ v < p.val
jsGt(v, p)  == ~p.nan /\ v > p.val
jsLe(v, p)  == ~p.nan /\ v <= p.val
jsGe(v, p)  == ~p.nan /\ v >= p.val
jsNeq(v, p) == p.nan \/ v # p.val


(***************************************************************************)
(* evaluateCondition and getVariableValue (hookManager.ts).                *)
(***************************************************************************)
OpGe == <<">", "=">>
OpLe == <<"<", "=">>
OpGt == <<">">>
OpLt == <<"<">>
OpEq == <<"=", "=">>
AndAnd == <<"&", "&">>

N_totalFiles == <<"t", "o", "t", "a", "l", "F", "i", "l", "e", "s">>
N_processedFiles == <<"p", "r", "o", "c", "e", "s", "s", "e", "d", "F", "i", "l", "e", "s">>
N_successfulFiles == <<"s", "u", "c", "c", "e", "s", "s", "f", "u", "l", "F", "i", "l", "e", "s">>
N_failedFiles == <<"f", "a", "i", "l", "e", "d", "F", "i", "l", "e", "s">>
N_modifiedFiles == <<"m", "o", "d", "i", "f", "i", "e", "d", "F", "i", "l", "e", "s">>
N_errorCount == <<"e", "r", "r", "o", "r", "C", "o", "u", "n", "t">>

\* mutant: the default case of the switch returns -1
getVariableValue_UnknownIsMinusOne(varName, st) ==
    CASE varName = N_totalFiles      -> st.totalFiles
      [] varName = N_processedFiles  -> st.processedFiles
      [] varName = N_successfulFiles -> st.successfulFiles
      [] varName = N_failedFiles     -> st.failedFiles
      [] varName = N_modifiedFiles   -> st.modifiedFiles
      [] varName = N_errorCount      -> st.errorCount
      [] OTHER                       -> 0 - 1

\* mutant: the default case of the switch returns stats.totalFiles
getVariableValue_UnknownIsTotalFiles(varName, st) ==
    CASE varName = N_processedFiles  -> st.processedFiles
      [] varName = N_successfulFiles -> st.successfulFiles
      [] varName = N_failedFiles     -> st.failedFiles
      [] varName = N_modifiedFiles   -> st.modifiedFiles
      [] varName = N_errorCount      -> st.errorCount
      [] OTHER                       -> st.totalFiles

\* getVariableValue: the switch over the six field names, default 0
getVariableValue(varName, st) ==
    CASE varName = N_totalFiles      -> st.totalFiles
      [] varName = N_processedFiles  -> st.processedFiles
      [] varName = N_successfulFiles -> st.successfulFiles
      [] varName = N_failedFiles     -> st.failedFiles
      [] varName = N_modifiedFiles   -> st.modifiedFiles
      [] varName = N_errorCount      -> st.errorCount
      [] OTHER                       -> 0

\* const [varName, value] = cond.split(op).map(s => s.trim())
clauseVar(cond, op) == trim(split(cond, op)[1])
clauseValue(cond, op) == trim(split(cond, op)[2])

\* mutant: the if / else-if chain tries '>' and '<' before '>=' and '<='
clauseReturnsFalse_NaiveOrder(cond, st) ==
    IF includes(cond, OpGt)
    THEN jsLe(getVariableValue(clauseVar(cond, OpGt), st), parseInt(clauseValue(cond, OpGt)))
    ELSE IF includes(cond, OpLt)
    THEN jsGe(getVariableValue(clauseVar(cond, OpLt), st), parseInt(clauseValue(cond, OpLt)))
    ELSE IF includes(cond, OpGe)
    THEN jsLt(getVariableValue(clauseVar(cond, OpGe), st), parseInt(clauseValue(cond, OpGe)))
    ELSE IF includes(cond, OpLe)
    THEN jsGt(getVariableValue(clauseVar(cond, OpLe), st), parseInt(clauseValue(cond, OpLe)))
    ELSE IF includes(cond, OpEq)
    THEN jsNeq(getVariableValue(clauseVar(cond, OpEq), st), parseInt(clauseValue(cond, OpEq)))
    ELSE FALSE

\* one iteration of the for-loop of evaluateCondition: TRUE when the
\* iteration executes `return false`.  The operators are tried in the
\* order of the if / else-if chain; a clause holding none of them falls
\* through every branch.
clauseReturnsFalse(cond, st) ==
    IF includes(cond, OpGe)
    THEN jsLt(getVariableValue(clauseVar(cond, OpGe), st), parseInt(clauseValue(cond, OpGe)))
    ELSE IF includes(cond, OpLe)
    THEN jsGt(getVariableValue(clauseVar(cond, OpLe), st), parseInt(clauseValue(cond, OpLe)))
    ELSE IF includes(cond, OpGt)
    THEN jsLe(getVariableValue(clauseVar(cond, OpGt), st), parseInt(clauseValue(cond, OpGt)))
    ELSE IF includes(cond, OpLt)
    THEN jsGe(getVariableValue(clauseVar(cond, OpLt), st), parseInt(clauseValue(cond, OpLt)))
    ELSE IF includes(cond, OpEq)
    THEN jsNeq(getVariableValue(clauseVar(cond, OpEq), st), parseInt(clauseValue(cond, OpEq)))
    ELSE FALSE

\* mutant: a condition of white space only is refused
evaluateCondition_BlankIsFalse(condition, st) ==
    IF condition = <<>> THEN TRUE
    ELSE IF trim(condition) = <<>> THEN FALSE
    ELSE LET conditions == split(condition, AndAnd)
         IN  \A k \in 1..Len(conditions) :
                ~clauseReturnsFalse(trim(conditions[k]), st)

\* mutant: the condition holds as soon as one of its clauses does
evaluateCondition_AnyClause(condition, st) ==
    IF condition = <<>> \/ trim(condition) = <<>>
    THEN TRUE
    ELSE LET conditions == split(condition, AndAnd)
         IN  \E k \in 1..Len(conditions) :
                ~clauseReturnsFalse(trim(conditions[k]), st)

\* evaluateCondition(condition, stats)
evaluateCondition(condition, st) ==
    IF condition = <<>> \/ trim(condition) = <<>>
    THEN TRUE
    ELSE LET conditions == split(condition, AndAnd)
         IN  \A k \in 1..Len(conditions) :
                ~clauseReturnsFalse(trim(conditions[k]), st)

(***************************************************************************)
(* Hook configurations (HookConfig[]) that loadHookConfigs may return.     *)
(***************************************************************************)
LifecyclePoints == {"beforeBatch", "afterBatch", "beforeFile", "afterFile", "onError"}

VscodePrefix == <<"v", "s", "c", "o", "d", "e", ":">>

Cmd_reload == <<"v", "s", "c", "o", "d", "e", ":", "r">>
Cmd_ls == <<"l", "s">>

Cond_none == <<>>
Cond_processedGe1 == <<"p", "r", "o", "c", "e", "s", "s", "e", "d", "F", "i", "l", "e", "s", " ", ">", "=", " ", "1">>
Cond_errorGt0 == <<"e", "r", "r", "o", "r", "C", "o", "u", "n", "t", " ", ">", " ", "0">>
Cond_failedEq0 == <<"f", "a", "i", "l", "e", "d", "F", "i", "l", "e", "s", " ", "=", "=", " ", "0">>
Cond_totalGe1AndErrEq0 == <<"t", "o", "t", "a", "l", "F", "i", "l", "e", "s", " ", ">", "=", " ", "1", " ", "&", "&", " ", "e", "r", "r", "o", "r", "C", "o", "u", "n", "t", " ", "=", "=", " ", "0">>

Hook(n, at, c, cmd) == [name |-> n, runAt |-> at, condition |-> c, command |-> cmd]

\* absent or empty cline-hooks.jsonc
NoHooks == <<>>

\* hooks at every lifecycle point (two of them at afterFile), mixing host
\* commands and shell commands, conditions that hold and conditions that fail
AllPointsHooks ==
    << Hook("start", "beforeBatch", Cond_none, Cmd_ls),
       Hook("warm", "beforeFile", Cond_processedGe1, Cmd_reload),
       Hook("alarm", "onError", Cond_errorGt0, Cmd_reload),
       Hook("clean", "afterFile", Cond_failedEq0, Cmd_ls),
       Hook("report", "afterFile", Cond_none, Cmd_reload),
       Hook("commit", "afterBatch", Cond_totalGe1AndErrEq0, Cmd_ls) >>

HookConfigs == {NoHooks, AllPointsHooks}


(***************************************************************************)
(* State.                                                                  *)
(***************************************************************************)
VARIABLES
    pc,                \* position of startBatchProcessing
    outcome,           \* how the command handler ended
    nFiles,            \* files.length; the files are numbered 0 .. nFiles-1
    taskDescription,   \* "unset", then "undefined" or "text": the taskDescription local
    hooks,             \* the hook list loaded for the run
    gitAvailable,      \* workspaceRoot is inside a git work tree
    stats,             \* the BatchProcessingStats object of the run
    logFilePath,       \* "null" or "file": the result of createBatchLogFile
    logFile,           \* the blocks of the log file, in file order
    hookLogs,          \* the hookLogs array
    lastHookLogIndex,  \* the lastHookLogIndex local
    i,                 \* the loop variable of the per-file loop
    phase,             \* the lifecycle point being served
    taskStatus,        \* the taskStatus local of the current iteration
    cancelRequested,   \* token.isCancellationRequested
    elapsedTime,       \* the elapsedTime local of processFileWithCline
    latestResult,      \* dashboard: the latestResult module variable
    activePanel,       \* dashboard: the activePanel module variable (0: undefined)
    posted,            \* dashboard: messages posted to panels, each with the panel it went to
    panels,            \* dashboard: the panels created so far, each "open" or "disposed"
    lastPublished,     \* history: the statistics handed to the last notifyDashboardResult call
    secondRun,         \* a second invocation of the command: how far it has got ("none": not invoked)
    agentCalls,        \* history: calls made on the agent API, per method
    hookCalls,         \* history: runHooksWithLogging invocations, per point
    dispatched,        \* history: commands dispatched by the last executeHooks
    appendAttempts,    \* history: calls of fs.promises.appendFile
    driverFailures,    \* history: driver calls that threw
    driverExit,        \* history: how the last driver call ended
    waitExpired,       \* history: the last driver call saw the agent active for the whole wait
    driverCalls,       \* history: calls on the agent made by the driver call in progress
    polledStatus,      \* history: the last answer of getTaskStatus to the current or last driver call
    configLoads,       \* history: calls of loadHookConfigs
    clineExtension,    \* what step 1 found: the extension and its exports
    condition,         \* evaluateCondition called on its own: its condition argument
    evalResult,        \* evaluateCondition called on its own: what it returned
    cancelSnap         \* history: the run as it was when cancellation was requested

vars == << pc, outcome, nFiles, taskDescription, hooks, gitAvailable, stats, logFilePath, logFile,
           hookLogs, lastHookLogIndex, i, phase, taskStatus, cancelRequested,
           elapsedTime, latestResult, activePanel, posted, agentCalls, hookCalls,
           dispatched, appendAttempts, driverFailures, driverExit, waitExpired,
           configLoads, clineExtension, condition, evalResult, cancelSnap,
           driverCalls, polledStatus, panels, lastPublished, secondRun >>

cfgVars   == << nFiles, taskDescription, hooks, gitAvailable, configLoads, clineExtension >>
logVars   == << logFilePath, logFile, hookLogs, lastHookLogIndex, appendAttempts >>
hookVars  == << hookCalls, dispatched >>
dashVars  == << latestResult, activePanel, posted, panels, lastPublished >>
loopVars  == << i, taskStatus >>
agentVars == << elapsedTime, agentCalls, driverFailures, driverExit, waitExpired,
                driverCalls, polledStatus >>
cancelVars == << cancelRequested, cancelSnap >>
evalVars  == << condition, evalResult >>

(***************************************************************************)
(* Statistics (BatchProcessingStats) and the statements that change them.  *)
(***************************************************************************)
\* the stats object before step 5 has created it
NoStats ==
    [ totalFiles |-> 0, processedFiles |-> 0, successfulFiles |-> 0,
      failedFiles |-> 0, modifiedFiles |-> 0, errorCount |-> 0,
      endTime |-> "undefined" ]

\* step 5: const stats = { totalFiles: files.length, ... }
InitialStats(n) == [NoStats EXCEPT !.totalFiles = n]

\* mutant: counting a success also resets the modified-files count
RecordSuccess_ClearsModified(st) ==
    [st EXCEPT !.successfulFiles = @ + 1, !.modifiedFiles = 0]

\* stats.successfulFiles++
RecordSuccess(st) == [st EXCEPT !.successfulFiles = @ + 1]

\* mutant: the catch block forgets stats.errorCount++
RecordFailure_NoErrorCount(st) == [st EXCEPT !.failedFiles = @ + 1]

\* mutant: a failure is counted as two errors
RecordFailure_CountsTwice(st) == [st EXCEPT !.failedFiles = @ + 1, !.errorCount = @ + 2]

\* stats.failedFiles++; stats.errorCount++
RecordFailure(st) == [st EXCEPT !.failedFiles = @ + 1, !.errorCount = @ + 1]

\* mutant: stats.processedFiles++ is left out
RecordProcessed_Forgotten(st) == st

\* stats.processedFiles++
RecordProcessed(st) == [st EXCEPT !.processedFiles = @ + 1]

\* mutant: the run never records when it ended
RecordEnd_Unset(st) == st

\* stats.endTime = Date.now()
RecordEnd(st) == [st EXCEPT !.endTime = "now"]

\* the values getGitModifiedCount may return: null, or a line count
GitNull == [isNull |-> TRUE, count |-> 0]
GitCounts == {GitNull} \cup {[isNull |-> FALSE, count |-> c] : c \in 0..MaxModified}

\* mutant: a failed git status is read as "nothing modified"
ApplyGitCount_NullIsZero(st, gitCount) ==
    [st EXCEPT !.modifiedFiles = IF gitCount.isNull THEN 0 ELSE gitCount.count]

\* refreshModifiedFilesCount once git has answered: null leaves stats alone
ApplyGitCount(st, gitCount) ==
    IF gitCount.isNull THEN st ELSE [st EXCEPT !.modifiedFiles = gitCount.count]

\* the latestResult module variable of the dashboard
NoResult == [defined |-> FALSE, stats |-> NoStats]
Result(st) == [defined |-> TRUE, stats |-> st]

\* the run at the moment cancellation was requested: between two files (the
\* counters as they were), or while file i was in progress
NoSnap == [taken |-> FALSE, inProgress |-> FALSE, i |-> 0, processed |-> 0,
           submitted |-> 0, fileHookCalls |-> 0]

\* the "Files: total=..., processed=..." line of the log blocks
FilesLine(st) ==
    [ total |-> st.totalFiles, processed |-> st.processedFiles,
      success |-> st.successfulFiles, failed |-> st.failedFiles,
      errors |-> st.errorCount ]

\* no driver call is in progress
NoDriverCalls == [startNewTask |-> 0, pressPrimaryButton |-> 0, getTaskStatus |-> 0]

\* the command has not been invoked
RunInit ==
    /\ pc = "idle"
    /\ outcome = "none"
    /\ nFiles = 0
    /\ taskDescription = "unset"
    /\ hooks = <<>>
    /\ gitAvailable = FALSE
    /\ logFilePath = "null"
    /\ logFile = <<>>
    /\ hookLogs = <<>>
    /\ lastHookLogIndex = 0
    /\ i = 0
    /\ phase = "none"
    /\ taskStatus = "success"
    /\ cancelRequested = FALSE
    /\ elapsedTime = 0
    /\ latestResult = NoResult
    /\ activePanel = 0
    /\ posted = <<>>
    /\ panels = <<>>
    /\ lastPublished = NoResult
    /\ secondRun = "none"
    /\ agentCalls = [startNewTask |-> 0, pressPrimaryButton |-> 0,
                     getTaskMessages |-> 0]
    /\ hookCalls = [p \in LifecyclePoints |-> 0]
    /\ appendAttempts = 0
    /\ driverFailures = 0
    /\ driverExit = "none"
    /\ waitExpired = FALSE
    /\ driverCalls = NoDriverCalls
    /\ polledStatus = "unasked"
    /\ configLoads = 0
    /\ clineExtension = "unresolved"
    /\ cancelSnap = NoSnap

Init ==
    /\ RunInit
    /\ stats = NoStats
    /\ dispatched = <<>>
    /\ condition = <<>>
    /\ evalResult = "unevaluated"


(***************************************************************************)
(* executeHooks (hookManager.ts) and runHooksWithLogging.                  *)
(***************************************************************************)
\* positions of the hooks that hooks.filter(hook => hook.runAt === runAt) keeps
MatchingHooks(hs, runAt) == {k \in 1..Len(hs) : hs[k].runAt = runAt}

\* mutant: the condition of a hook is not looked at
hookSkipped_Never(h, st) == FALSE

\* if (hook.condition && !evaluateCondition(hook.condition, stats)) continue
hookSkipped(h, st) == h.condition # <<>> /\ ~evaluateCondition(h.condition, st)

\* positions of the matching hooks whose command executeHooks goes on to execute
ExecutedHooks(hs, runAt, st) == {k \in MatchingHooks(hs, runAt) : ~hookSkipped(hs[k], st)}

\* mutant: every command is typed into a terminal, the prefix is not looked at
dispatchHook_AlwaysTerminal(h, throws) ==
    [ hook |-> h.name, target |-> "terminal", text |-> h.command, threw |-> throws ]

\* the body of the try block for one hook; `throws` says whether the host
\* call (executeCommand, or createTerminal) raised
dispatchHook(h, throws) ==
    IF startsWith(h.command, VscodePrefix)
    THEN [ hook |-> h.name, target |-> "commandBus", text |-> From(h.command, 8),
           threw |-> throws ]
    ELSE [ hook |-> h.name, target |-> "terminal", text |-> h.command,
           threw |-> throws ]

\* mutant: no try / catch around a hook, the first command that raises ends the loop
RECURSIVE executeHooksFrom_StopsAtThrow(_, _, _, _, _)
executeHooksFrom_StopsAtThrow(hs, k, runAt, st, failing) ==
    IF k > Len(hs) THEN <<>>
    ELSE IF hs[k].runAt # runAt
    THEN executeHooksFrom_StopsAtThrow(hs, k + 1, runAt, st, failing)
    ELSE IF hookSkipped(hs[k], st)
    THEN << [ hook |-> hs[k].name, target |-> "skipped", text |-> <<>>,
              threw |-> FALSE ] >>
         \o executeHooksFrom_StopsAtThrow(hs, k + 1, runAt, st, failing)
    ELSE IF k \in failing THEN << dispatchHook(hs[k], TRUE) >>
    ELSE << dispatchHook(hs[k], FALSE) >>
         \o executeHooksFrom_StopsAtThrow(hs, k + 1, runAt, st, failing)

\* executeHooks from position k on: what the loop does with each matching hook,
\* in list order.  failing is the set of positions whose host call raises.
RECURSIVE executeHooksFrom(_, _, _, _, _)
executeHooksFrom(hs, k, runAt, st, failing) ==
    IF k > Len(hs) THEN <<>>
    ELSE LET rest == executeHooksFrom(hs, k + 1, runAt, st, failing)
         IN  IF hs[k].runAt # runAt THEN rest
             ELSE IF hookSkipped(hs[k], st)
             THEN << [ hook |-> hs[k].name, target |-> "skipped", text |-> <<>>,
                       threw |-> FALSE ] >> \o rest
             ELSE << dispatchHook(hs[k], k \in failing) >> \o rest

executeHooks(hs, runAt, st, failing) == executeHooksFrom(hs, 1, runAt, st, failing)

\* fileUri of a lifecycle point: the current file inside the loop, none outside
FileOf(point, idx) ==
    IF point \in {"beforeFile", "onError", "afterFile"} THEN idx ELSE 0 - 1

\* targetHooks.map(hook => hook.name): the names of the matching hooks, in list order
hookNames(hs, point) ==
    LET targetHooks == SelectSeq(hs, LAMBDA h : h.runAt = point)
    IN  [k \in 1..Len(targetHooks) |-> targetHooks[k].name]

\* the two lines runHooksWithLogging pushes: executeHooks catches every
\* error of a hook itself, so the line after `start` is `completed`
hookLogLines(hs, point, idx) ==
    << [ runAt |-> point, file |-> FileOf(point, idx), what |-> "start",
         names |-> hookNames(hs, point) ],
       [ runAt |-> point, file |-> FileOf(point, idx), what |-> "completed",
         names |-> << >> ] >>

\* mutant: after the onError hooks the same file is submitted again
AfterHooks_OnErrorRetries(point) ==
    CASE point = "beforeBatch" -> "appendHookBlock"
      [] point = "beforeFile"  -> "startTask"
      [] point = "onError"     -> "startTask"
      [] point = "afterFile"   -> "appendTaskLog"
      [] point = "afterBatch"  -> "appendHookBlock"

\* where startBatchProcessing goes after the hooks of a lifecycle point
AfterHooks(point) ==
    CASE point = "beforeBatch" -> "appendHookBlock"
      [] point = "beforeFile"  -> "startTask"
      [] point = "onError"     -> "countProcessed"
      [] point = "afterFile"   -> "appendTaskLog"
      [] point = "afterBatch"  -> "appendHookBlock"

\* the command handler of activate(): an error thrown by
\* startBatchProcessing is caught and shown, and the run is over
Thrown ==
    /\ pc' = "ended"
    /\ outcome' = "failed"


(***************************************************************************)
(* startBatchProcessing, steps 1 - 6.                                      *)
(***************************************************************************)
\* what vscode.extensions.getExtension, activate() and .exports can give:
\* no extension, an activation that rejects, no exports, or the API
ExtensionLookups == {"notInstalled", "activationFailed", "noExports", "ready"}

\* mutant: the exports of the extension are used without the if (!cline) test
AfterResolveAgent_ExportsUnchecked(found) ==
    IF found \in {"notInstalled", "activationFailed"} THEN "ended" ELSE "selectFiles"

\* if (!clineExtension) throw ...; await activate(); if (!cline) throw ...
AfterResolveAgent(found) == IF found = "ready" THEN "selectFiles" ELSE "ended"

\* step 1: the agent extension is looked up and activated, its API taken
ResolveAgent ==
    /\ pc = "idle"
    /\ \E found \in ExtensionLookups :
          /\ clineExtension' = found
          /\ pc' = AfterResolveAgent(found)
          /\ outcome' = IF pc' = "ended" THEN "failed" ELSE outcome
    /\ UNCHANGED << nFiles, taskDescription, hooks, gitAvailable, configLoads, stats, evalVars, secondRun,
                    logVars, loopVars, phase, cancelVars, agentVars, dashVars, hookVars >>

\* mutant: the empty selection is not checked
AfterSelectFiles_Continue(n) == "getTask"

\* if (files.length === 0) { showInformationMessage(...); return; }
AfterSelectFiles(n) == IF n = 0 THEN "ended" ELSE "getTask"

\* step 2: selectFilesAndFolders; no file ends the run
SelectFiles ==
    /\ pc = "selectFiles"
    /\ \E n \in 0..MaxFiles :
          /\ nFiles' = n
          /\ pc' = AfterSelectFiles(n)
          /\ outcome' = IF pc' = "ended" THEN "noFiles" ELSE outcome
    /\ UNCHANGED << taskDescription, hooks, gitAvailable, configLoads, clineExtension, stats, evalVars, secondRun,
                    logVars, loopVars, phase, cancelVars, agentVars, dashVars, hookVars >>

\* if (!taskDescription) { return; }
AfterTaskDescription(description) ==
    IF description = "undefined" THEN "ended" ELSE "loadHooks"

\* step 3: getTaskDescription; undefined (the user cancelled) ends the run
GetTaskDescription ==
    /\ pc = "getTask"
    /\ \E description \in {"undefined", "text"} :
          /\ taskDescription' = description
          /\ pc' = AfterTaskDescription(description)
          /\ outcome' = IF pc' = "ended" THEN "noTask" ELSE outcome
    /\ UNCHANGED << nFiles, hooks, gitAvailable, configLoads, clineExtension, stats, evalVars, secondRun, logVars,
                    loopVars, phase, cancelVars, agentVars, dashVars, hookVars >>

\* step 4: loadHookConfigs and isGitRepository
LoadHookConfigs ==
    /\ pc = "loadHooks"
    /\ \E hs \in HookConfigs, git \in BOOLEAN :
          /\ hooks' = hs
          /\ gitAvailable' = git
    /\ configLoads' = configLoads + 1
    /\ pc' = "initStats"
    /\ UNCHANGED << outcome, nFiles, taskDescription, clineExtension, stats, evalVars, secondRun, logVars, loopVars,
                    phase, cancelVars, agentVars, dashVars, hookVars >>

\* step 5: the statistics are created
InitStats ==
    /\ pc = "initStats"
    /\ stats' = InitialStats(nFiles)
    /\ pc' = "createLog"
    /\ UNCHANGED << outcome, cfgVars, evalVars, secondRun, logVars, loopVars, phase, cancelVars,
                    agentVars, dashVars, hookVars >>

\* the header createBatchLogFile writes
HeaderBlock(hs, st) ==
    [ kind |-> "header", files |-> FilesLine(st), hookConfigs |-> Len(hs) ]

\* step 6: createBatchLogFile returns the path, or null when anything in it
\* throws (the directory or the file cannot be written)
CreateBatchLogFile ==
    /\ pc = "createLog"
    /\ \E created \in BOOLEAN :
          IF created
          THEN logFilePath' = "file" /\ logFile' = << HeaderBlock(hooks, stats) >>
          ELSE logFilePath' = "null" /\ logFile' = logFile
    /\ lastHookLogIndex' = 0
    /\ phase' = "beforeBatch"
    /\ pc' = "refresh"
    /\ UNCHANGED << outcome, cfgVars, evalVars, secondRun, stats, hookLogs, appendAttempts, loopVars,
                    cancelVars, agentVars, dashVars, hookVars >>

(***************************************************************************)
(* The lifecycle points: refreshModifiedFilesCount, runHooksWithLogging.   *)
(***************************************************************************)
\* refreshModifiedFilesCount: nothing without git, else the git count
RefreshModifiedFilesCount ==
    /\ pc = "refresh"
    /\ IF gitAvailable
       THEN \E g \in GitCounts : stats' = ApplyGitCount(stats, g)
       ELSE stats' = stats
    /\ pc' = "hooks"
    /\ UNCHANGED << outcome, cfgVars, evalVars, secondRun, logVars, loopVars, phase, cancelVars,
                    agentVars, dashVars, hookVars >>

\* runHooksWithLogging(hooks, phase, stats, hookLogs, file)
RunHooksWithLogging ==
    /\ pc = "hooks"
    /\ \E failing \in SUBSET ExecutedHooks(hooks, phase, stats) :
          dispatched' = executeHooks(hooks, phase, stats, failing)
    /\ hookLogs' = hookLogs \o hookLogLines(hooks, phase, i)
    /\ hookCalls' = [hookCalls EXCEPT ![phase] = @ + 1]
    /\ pc' = AfterHooks(phase)
    /\ UNCHANGED << outcome, cfgVars, evalVars, secondRun, stats, logFilePath, logFile, lastHookLogIndex,
                    appendAttempts, loopVars, phase, cancelVars, agentVars, dashVars >>

\* mutant: the hook-run block is written without the lines of the slice
HookRunBlock_NoLines(title, lines) == [ kind |-> "hookRuns", title |-> title, lines |-> << >> ]

\* buildHookRunBlock(title, hookLogs.slice(lastHookLogIndex))
HookRunBlock(title, lines) == [ kind |-> "hookRuns", title |-> title, lines |-> lines ]

\* mutant: the summary is appended without the if (logFilePath) test
AfterHookBlock_AlwaysSummary(point, path) ==
    IF point = "beforeBatch" THEN "loopTop" ELSE "appendSummary"

\* mutant: the afterBatch block is the last one, no summary is appended
AfterHookBlock_NoSummary(point, path) ==
    IF point = "beforeBatch" THEN "loopTop" ELSE "notify"

\* where startBatchProcessing goes after the hook-run block of a batch point
AfterHookBlock(point, path) ==
    IF point = "beforeBatch" THEN "loopTop"
    ELSE IF path = "file" THEN "appendSummary" ELSE "notify"

\* steps 7 and 10: if (logFilePath) the lines pushed since the last block are
\* appended as a hook-run block; appendLogSection has no handler of its own
AppendHookRunBlock ==
    /\ pc = "appendHookBlock"
    /\ IF logFilePath = "file"
       THEN /\ lastHookLogIndex' = Len(hookLogs)
            /\ appendAttempts' = appendAttempts + 1
            /\ \E written \in BOOLEAN :
                  IF written
                  THEN /\ logFile' = Append(logFile,
                              HookRunBlock(phase, From(hookLogs, lastHookLogIndex + 1)))
                       /\ pc' = AfterHookBlock(phase, logFilePath)
                       /\ outcome' = outcome
                  ELSE /\ logFile' = logFile
                       /\ Thrown
       ELSE /\ pc' = AfterHookBlock(phase, logFilePath)
            /\ UNCHANGED << outcome, logFile, lastHookLogIndex, appendAttempts >>
    /\ UNCHANGED << cfgVars, evalVars, secondRun, stats, logFilePath, hookLogs, loopVars, phase,
                    cancelVars, agentVars, dashVars, hookVars >>


(***************************************************************************)
(* Step 8: the per-file loop inside withProgress.                          *)
(***************************************************************************)
\* mutant: the loop test is i <= files.length
LoopContinues_OffByOne(idx, n, cancelled) == idx <= n /\ ~cancelled

\* mutant: the cancellation token is never looked at
LoopContinues_NoCancel(idx, n, cancelled) == idx < n

\* for (let i = 0; i < files.length; i++) { if (token.isCancellationRequested) break; ...
LoopContinues(idx, n, cancelled) == idx < n /\ ~cancelled

\* the top of an iteration: the loop test and the cancellation check
LoopTop ==
    /\ pc = "loopTop"
    /\ IF LoopContinues(i, nFiles, cancelRequested)
       THEN phase' = "beforeFile" /\ pc' = "refresh"
       ELSE phase' = phase /\ pc' = "setEndTime"
    /\ UNCHANGED << outcome, cfgVars, evalVars, secondRun, stats, logVars, loopVars, cancelVars,
                    agentVars, dashVars, hookVars >>

\* mutant: the status "none" does not end the wait
isTerminalStatus_WithoutNone(status) == status \in {"completed", "cancelled"}

\* the status values that end the wait of processFileWithCline
isTerminalStatus(status) == status \in {"completed", "cancelled", "none"}

\* the number of passes of the wait loop that the budget allows
MaxPolls == maxWaitTime \div checkInterval

\* while (elapsedTime < maxWaitTime)
WaitContinues(elapsed) == elapsed < maxWaitTime

\* mutant: an exhausted wait budget is raised as an error
pollOutcome_TimeoutThrows(status, elapsed) ==
    IF status = "throws" THEN "threw"
    ELSE IF status \in {"completed", "cancelled", "none"} THEN "terminal"
    ELSE IF elapsed + checkInterval < maxWaitTime THEN "waiting"
    ELSE "threw"

\* mutant: the wait is not given up when the budget is used up
pollOutcome_NeverExpires(status, elapsed) ==
    IF status = "throws" THEN "threw"
    ELSE IF isTerminalStatus(status) THEN "terminal"
    ELSE "waiting"

\* what one iteration of the wait loop makes of the answer of getTaskStatus:
\* the call throws, the loop breaks, the loop goes round again, or the loop
\* test fails after the sleep and the function returns
pollOutcome(status, elapsed) ==
    IF status = "throws" THEN "threw"
    ELSE IF isTerminalStatus(status) THEN "terminal"
    ELSE IF WaitContinues(elapsed + checkInterval) THEN "waiting"
    ELSE "timeout"

\* mutant: the catch block counts the failure and runs no onError hooks
DriverThrew_NoOnErrorHooks ==
    /\ taskStatus' = "failed"
    /\ stats' = RecordFailure(stats)
    /\ driverFailures' = driverFailures + 1
    /\ driverExit' = "threw"
    /\ driverCalls' = NoDriverCalls
    /\ elapsedTime' = 0
    /\ phase' = phase
    /\ pc' = "countProcessed"

\* the catch block of the iteration: processFileWithCline threw
DriverThrew ==
    /\ taskStatus' = "failed"
    /\ stats' = RecordFailure(stats)
    /\ driverFailures' = driverFailures + 1
    /\ driverExit' = "threw"
    /\ driverCalls' = NoDriverCalls
    /\ elapsedTime' = 0
    /\ phase' = "onError"
    /\ pc' = "refresh"

\* processFileWithCline returned: the rest of the try block
DriverReturned(how) ==
    /\ stats' = RecordSuccess(stats)
    /\ driverExit' = how
    /\ driverCalls' = NoDriverCalls
    /\ elapsedTime' = 0
    /\ pc' = "countProcessed"
    /\ UNCHANGED << taskStatus, driverFailures, phase >>

\* mutant: the wait loop is entered straight after the submission
AfterStartNewTask_SkipsConfirmation == "pollStatus"

\* after startNewTask and the settle delay comes pressPrimaryButton
AfterStartNewTask == "pressButton"

\* let taskStatus = 'success'; processFileWithCline: cline.startNewTask(prompt)
StartNewTask ==
    /\ pc = "startTask"
    /\ agentCalls' = [agentCalls EXCEPT !.startNewTask = @ + 1]
    /\ waitExpired' = FALSE
    /\ polledStatus' = "unasked"
    /\ \E accepted \in BOOLEAN :
          IF accepted
          THEN /\ taskStatus' = "success"
               /\ driverExit' = "none"
               /\ driverCalls' = [NoDriverCalls EXCEPT !.startNewTask = 1]
               /\ elapsedTime' = 0
               /\ pc' = AfterStartNewTask
               /\ UNCHANGED << stats, driverFailures, phase >>
          ELSE DriverThrew
    /\ UNCHANGED << outcome, cfgVars, evalVars, secondRun, logVars, i, cancelVars, dashVars, hookVars >>

\* after the settle delay: cline.pressPrimaryButton(), then let elapsedTime = 0
PressPrimaryButton ==
    /\ pc = "pressButton"
    /\ agentCalls' = [agentCalls EXCEPT !.pressPrimaryButton = @ + 1]
    /\ \E pressed \in BOOLEAN :
          IF pressed
          THEN /\ elapsedTime' = 0
               /\ driverCalls' = [driverCalls EXCEPT !.pressPrimaryButton = @ + 1]
               /\ pc' = "pollStatus"
               /\ UNCHANGED << stats, taskStatus, driverFailures, driverExit, phase >>
          ELSE DriverThrew
    /\ UNCHANGED << outcome, cfgVars, evalVars, secondRun, logVars, i, cancelVars, waitExpired, polledStatus,
                    dashVars, hookVars >>

\* one iteration of the wait loop: cline.getTaskStatus(), then either the
\* break, or the sleep and elapsedTime += checkInterval followed by the loop test
PollTaskStatus ==
    /\ pc = "pollStatus"
    /\ WaitContinues(elapsedTime)
    /\ \E status \in {"none", "active", "completed", "cancelled", "throws"} :
          /\ waitExpired' = (status = "active" /\ elapsedTime + checkInterval >= maxWaitTime)
          /\ polledStatus' = status
          /\ LET result == pollOutcome(status, elapsedTime)
             IN  CASE result = "threw"   -> DriverThrew
                   [] result = "waiting" ->
                        /\ elapsedTime' = elapsedTime + checkInterval
                        /\ driverCalls' = [driverCalls EXCEPT !.getTaskStatus = @ + 1]
                        /\ UNCHANGED << pc, stats, taskStatus, driverFailures,
                                        driverExit, phase >>
                   [] OTHER              -> DriverReturned(result)
    /\ UNCHANGED << outcome, cfgVars, evalVars, secondRun, logVars, i, cancelVars, agentCalls, dashVars,
                    hookVars >>

\* stats.processedFiles++
CountProcessed ==
    /\ pc = "countProcessed"
    /\ stats' = RecordProcessed(stats)
    /\ phase' = "afterFile"
    /\ pc' = "refresh"
    /\ UNCHANGED << outcome, cfgVars, evalVars, secondRun, logVars, loopVars, cancelVars, agentVars,
                    dashVars, hookVars >>

\* mutant: the block of a file is written under the title of a hook-run block
TaskLogBlock_AsHookRuns(file, status, lines, st) ==
    [ kind |-> "hookRuns", title |-> "afterFile", lines |-> lines ]

\* buildTaskLogBlock(fileLabel, taskStatus, messages, hookLogSlice, stats)
TaskLogBlock(file, status, lines, st) ==
    [ kind |-> "taskCompleted", file |-> file, status |-> status,
      files |-> FilesLine(st), lines |-> lines ]

\* the end of an iteration: if (logFilePath) the agent's messages are fetched and
\* the task-completion block is appended; neither call has a handler
AppendTaskLog ==
    /\ pc = "appendTaskLog"
    /\ IF logFilePath = "file"
       THEN /\ agentCalls' = [agentCalls EXCEPT !.getTaskMessages = @ + 1]
            /\ \E step \in {"messagesThrow", "appendThrows", "written"} :
                  CASE step = "messagesThrow" ->
                          /\ UNCHANGED << logFile, lastHookLogIndex, appendAttempts, i >>
                          /\ Thrown
                    [] step = "appendThrows" ->
                          /\ lastHookLogIndex' = Len(hookLogs)
                          /\ appendAttempts' = appendAttempts + 1
                          /\ UNCHANGED << logFile, i >>
                          /\ Thrown
                    [] step = "written" ->
                          /\ lastHookLogIndex' = Len(hookLogs)
                          /\ appendAttempts' = appendAttempts + 1
                          /\ logFile' = Append(logFile,
                                TaskLogBlock(i, taskStatus,
                                             From(hookLogs, lastHookLogIndex + 1), stats))
                          /\ i' = i + 1
                          /\ pc' = "loopTop"
                          /\ outcome' = outcome
       ELSE /\ i' = i + 1
            /\ pc' = "loopTop"
            /\ UNCHANGED << outcome, logFile, lastHookLogIndex, appendAttempts, agentCalls >>
    /\ UNCHANGED << cfgVars, evalVars, secondRun, stats, logFilePath, hookLogs, taskStatus, phase, cancelVars,
                    elapsedTime, driverFailures, driverExit, waitExpired, driverCalls,
                    polledStatus, dashVars, hookVars >>

\* the cancel button of the progress notification, while the loop runs
InLoop ==
    \/ pc \in {"loopTop", "startTask", "pressButton", "pollStatus", "countProcessed",
               "appendTaskLog"}
    \/ pc \in {"refresh", "hooks"} /\ phase \in {"beforeFile", "onError", "afterFile"}

FileHookCalls == hookCalls["beforeFile"] + hookCalls["onError"] + hookCalls["afterFile"]

RequestCancellation ==
    /\ InLoop
    /\ ~cancelRequested
    /\ cancelRequested' = TRUE
    /\ cancelSnap' = IF pc = "loopTop"
                     THEN [ taken |-> TRUE, inProgress |-> FALSE, i |-> i,
                            processed |-> stats.processedFiles,
                            submitted |-> agentCalls.startNewTask,
                            fileHookCalls |-> FileHookCalls ]
                     ELSE [ NoSnap EXCEPT !.taken = TRUE, !.inProgress = TRUE, !.i = i ]
    /\ UNCHANGED << pc, outcome, cfgVars, evalVars, secondRun, stats, logVars, loopVars, phase, agentVars,
                    dashVars, hookVars >>

(***************************************************************************)
(* Steps 9 - 11: completion.                                               *)
(***************************************************************************)
\* step 9: stats.endTime = Date.now()
SetEndTime ==
    /\ pc = "setEndTime"
    /\ stats' = RecordEnd(stats)
    /\ phase' = "afterBatch"
    /\ pc' = "refresh"
    /\ UNCHANGED << outcome, cfgVars, evalVars, secondRun, logVars, loopVars, cancelVars, agentVars,
                    dashVars, hookVars >>

\* mutant: the summary prints the counters the run started with
SummaryBlock_InitialTotals(st) ==
    [ kind |-> "summary", files |-> FilesLine(InitialStats(st.totalFiles)) ]

\* the '-- Batch Summary --' block
SummaryBlock(st) == [ kind |-> "summary", files |-> FilesLine(st) ]

\* the summary block is appended after the afterBatch hook-run block
AppendSummary ==
    /\ pc = "appendSummary"
    /\ appendAttempts' = appendAttempts + 1
    /\ \E written \in BOOLEAN :
          IF written
          THEN /\ logFile' = Append(logFile, SummaryBlock(stats))
               /\ pc' = "notify"
               /\ outcome' = outcome
          ELSE /\ logFile' = logFile
               /\ Thrown
    /\ UNCHANGED << cfgVars, evalVars, secondRun, stats, logFilePath, hookLogs, lastHookLogIndex, loopVars,
                    phase, cancelVars, agentVars, dashVars, hookVars >>

\* panel.webview.postMessage({ command: 'batchProcessingCompleted', ...result })
postMessage(panel, result) == Append(posted, [panel |-> panel, result |-> result])

\* mutant: the result is kept only when a panel is there to receive it
RetainedResult_OnlyWhenSubscribed(st, active, latest) ==
    IF active # 0 THEN Result(st) ELSE latest

\* latestResult = { stats, ... } is assigned before the test of activePanel
RetainedResult(st, active, latest) == Result(st)

\* notifyDashboardResult(stats) of dashboard.ts
notifyDashboardResult(st) ==
    /\ lastPublished' = Result(st)
    /\ latestResult' = RetainedResult(st, activePanel, latestResult)
    /\ posted' = IF activePanel # 0 THEN postMessage(activePanel, latestResult') ELSE posted
    /\ UNCHANGED << activePanel, panels >>

\* notifyDashboardResult(stats), then the final messages
NotifyDashboardResult ==
    /\ pc = "notify"
    /\ notifyDashboardResult(stats)
    /\ pc' = "ended"
    /\ outcome' = "completed"
    /\ UNCHANGED << cfgVars, evalVars, secondRun, stats, logVars, loopVars, phase, cancelVars, agentVars,
                    hookVars >>

Next ==
    \/ ResolveAgent
    \/ SelectFiles
    \/ GetTaskDescription
    \/ LoadHookConfigs
    \/ InitStats
    \/ CreateBatchLogFile
    \/ RefreshModifiedFilesCount
    \/ RunHooksWithLogging
    \/ AppendHookRunBlock
    \/ LoopTop
    \/ StartNewTask
    \/ PressPrimaryButton
    \/ PollTaskStatus
    \/ CountProcessed
    \/ AppendTaskLog
    \/ RequestCancellation
    \/ SetEndTime
    \/ AppendSummary
    \/ NotifyDashboardResult

Spec == Init /\ [][Next]_vars

\* every awaited call on the agent is answered or rejected, and the timers of
\* the driver fire: a driver call that can take its next step takes it
FairSpec ==
    /\ Spec
    /\ WF_vars(StartNewTask)
    /\ WF_vars(PressPrimaryButton)
    /\ WF_vars(PollTaskStatus)

\* runHooksWithLogging returns to startBatchProcessing: the step that leaves a
\* lifecycle point, whatever the hooks of the point did
HooksReturn == pc = "hooks" /\ pc' = AfterHooks(phase)

\* every external call that startBatchProcessing awaits -- a dialog, an agent
\* call, the dispatch of a hook, a file write -- returns or throws: a run that
\* can take a step takes one
TerminationSpec ==
    /\ Spec
    /\ WF_vars(pc # "hooks" /\ Next)
    /\ WF_pc(HooksReturn)


(***************************************************************************)
(* The command invoked again while a run is in progress.  The handler      *)
(* registered by activate() calls startBatchProcessing() on every          *)
(* invocation; the second invocation has statistics, hooks and a log of    *)
(* its own and is followed here only where it meets the first: at the      *)
(* agent, which both take from the same extension exports.                 *)
(***************************************************************************)
\* the variables of the first invocation
runVars == << pc, outcome, cfgVars, evalVars, stats, logVars, loopVars, phase, cancelVars,
              agentVars, hookVars >>

\* the command is invoked while the first invocation has not ended: the second
\* invocation goes through its steps 1 - 7 and the beforeFile hooks of its first file
InvokeAgain ==
    /\ pc \notin {"idle", "ended"}
    /\ secondRun = "none"
    /\ secondRun' = "startTask"
    /\ UNCHANGED << runVars, dashVars >>

\* the second invocation calls processFileWithCline: cline.startNewTask(prompt)
SecondStartNewTask ==
    /\ secondRun = "startTask"
    /\ \E accepted \in BOOLEAN :
          secondRun' = IF accepted THEN "inDriver" ELSE "afterDriver"
    /\ UNCHANGED << runVars, dashVars >>

\* the driver call of the second invocation ends: pressPrimaryButton and the
\* wait loop have returned or thrown
SecondDriverEnds ==
    /\ secondRun = "inDriver"
    /\ secondRun' = "afterDriver"
    /\ UNCHANGED << runVars, dashVars >>

ReentrySpec ==
    Init /\ [][Next \/ InvokeAgain \/ SecondStartNewTask \/ SecondDriverEnds]_vars

(***************************************************************************)
(* The dashboard (dashboard.ts) on its own: panels are opened and          *)
(* disposed, a webview asks for the latest statistics, and runs that end   *)
(* publish their statistics.  The run is folded into the one call it       *)
(* makes on the dashboard, notifyDashboardResult.                          *)
(***************************************************************************)
\* the panels that have not been disposed
OpenPanels == {p \in 1..Len(panels) : panels[p] = "open"}

\* the statistics of a run of n files that has ended, all files successful
FinishedRun(n) ==
    RecordEnd([InitialStats(n) EXCEPT !.processedFiles = n, !.successfulFiles = n])

\* openDashboard: if (latestResult) the new panel is sent it
MessagesOnOpen(latest) == IF latest.defined THEN <<latest>> ELSE <<>>

\* panel.onDidDispose(() => { activePanel = undefined; })
onDidDispose(panel, active) == 0

\* openDashboard(context): the panel is created and becomes the active one
OpenDashboard ==
    /\ Len(panels) < MaxPanels
    /\ Len(posted) + Len(MessagesOnOpen(latestResult)) <= MaxPosted
    /\ panels' = Append(panels, "open")
    /\ activePanel' = Len(panels) + 1
    /\ posted' = posted \o [k \in 1..Len(MessagesOnOpen(latestResult)) |->
                                [panel |-> Len(panels) + 1,
                                 result |-> MessagesOnOpen(latestResult)[k]]]
    /\ UNCHANGED << runVars, secondRun, latestResult, lastPublished >>

\* the user closes a panel: its onDidDispose listener runs
DisposePanel ==
    \E p \in OpenPanels :
        /\ panels' = [panels EXCEPT ![p] = "disposed"]
        /\ activePanel' = onDidDispose(p, activePanel)
        /\ UNCHANGED << runVars, secondRun, latestResult, posted, lastPublished >>

\* the webview of an open panel sends 'requestLatestStats'
RequestLatestStats ==
    \E p \in OpenPanels :
        /\ latestResult.defined => Len(posted) < MaxPosted
        /\ posted' = IF latestResult.defined THEN postMessage(p, latestResult) ELSE posted
        /\ UNCHANGED << runVars, secondRun, latestResult, activePanel, panels, lastPublished >>

\* a run of the batch command ends and publishes its statistics
PublishResult ==
    /\ activePanel # 0 => Len(posted) < MaxPosted
    /\ \E n \in 1..MaxFiles : notifyDashboardResult(FinishedRun(n))
    /\ UNCHANGED << runVars, secondRun >>

DashSpec ==
    Init /\ [][OpenDashboard \/ DisposePanel \/ RequestLatestStats \/ PublishResult]_vars

(***************************************************************************)
(* evaluateCondition and executeHooks on their own: the conditions and     *)
(* the statistics they are given, and the specification that applies them. *)
(***************************************************************************)
\* the six fields: the name a condition uses and the field of the statistics
Fields ==
    { [name |-> N_totalFiles, key |-> "totalFiles"],
      [name |-> N_processedFiles, key |-> "processedFiles"],
      [name |-> N_successfulFiles, key |-> "successfulFiles"],
      [name |-> N_failedFiles, key |-> "failedFiles"],
      [name |-> N_modifiedFiles, key |-> "modifiedFiles"],
      [name |-> N_errorCount, key |-> "errorCount"] }

\* the comparison operators of the documented grammar
Operators == {OpGe, OpLe, OpEq, OpGt, OpLt}

\* decimal integer literals, each with the integer it denotes
Literals ==
    { [text |-> <<"0">>, value |-> 0], [text |-> <<"1">>, value |-> 1],
      [text |-> <<"1", "0">>, value |-> 10],
      [text |-> <<"-", "1">>, value |-> 0 - 1] }

\* the text '<left> <op> <right>'
Clause(left, op, right) == left \o <<" ">> \o op \o <<" ">> \o right

\* the mathematical comparison an operator denotes
Compare(v, op, n) ==
    CASE op = OpGe -> v >= n
      [] op = OpLe -> v <= n
      [] op = OpEq -> v = n
      [] op = OpGt -> v > n
      [] op = OpLt -> v < n

\* every '<field> <op> <integer>'
WellFormedClauses ==
    { [text |-> Clause(f.name, o, l.text), key |-> f.key, op |-> o, n |-> l.value] :
        f \in Fields, o \in Operators, l \in Literals }

\* the clauses conjunctions are built from
JoinableClauses ==
    { c \in WellFormedClauses :
        /\ c.key \in {"totalFiles", "errorCount"}
        /\ c.op \in {OpGe, OpEq}
        /\ c.n \in {0, 1} }

\* the clauses of the example 'totalFiles >= 5 && errorCount == 0'
TotalFilesGe5 ==
    [text |-> Clause(N_totalFiles, OpGe, <<"5">>), key |-> "totalFiles", op |-> OpGe, n |-> 5]
ErrorCountEq0 ==
    [text |-> Clause(N_errorCount, OpEq, <<"0">>), key |-> "errorCount", op |-> OpEq, n |-> 0]
ProcessedGt0 ==
    [text |-> Clause(N_processedFiles, OpGt, <<"0">>), key |-> "processedFiles", op |-> OpGt, n |-> 0]

\* clause texts joined by ' && '
RECURSIVE joinClauses(_)
joinClauses(cs) ==
    IF Len(cs) = 1 THEN cs[1].text
    ELSE cs[1].text \o <<" ">> \o AndAnd \o <<" ">> \o joinClauses(Tail(cs))

\* conditions of two or three well-formed clauses
Conjunctions ==
    { <<a, b>> : a \in JoinableClauses, b \in JoinableClauses }
        \cup { <<TotalFilesGe5, ErrorCountEq0>>,
               <<TotalFilesGe5, ErrorCountEq0, ProcessedGt0>> }

\* '', and conditions of white space only
BlankConditions == { <<>>, <<" ">>, <<" ", " ">>, <<"\t">> }

N_unknown == <<"u", "n", "k", "n", "o", "w", "n">>
N_TotalFiles == <<"T", "o", "t", "a", "l", "F", "i", "l", "e", "s">>
N_abc == <<"a", "b", "c">>

\* names that are none of the six field names
UnknownNames == {N_unknown, N_TotalFiles}

\* every '<unknown name> <op> <integer>'
UnknownVariableClauses ==
    { [text |-> Clause(u, o, l.text), op |-> o, n |-> l.value] :
        u \in UnknownNames, o \in Operators, l \in Literals }

\* clauses with no operator of the grammar
NoOperatorClauses ==
    { N_errorCount,
      N_errorCount \o <<" ", "=", " ", "0">>,
      N_errorCount \o <<" ", "!", "=", " ", "0">>,
      N_errorCount \o <<" ", "0">> }

\* clauses '<field> <op> <right>' whose right-hand side is no integer
NonIntegerClauses ==
    { Clause(N_errorCount, o, r) : o \in Operators, r \in {N_abc, N_totalFiles} }

\* conditions with a malformed clause: alone, or next to a well-formed clause
MalformedConditions ==
    LET bad == NoOperatorClauses \cup NonIntegerClauses
    IN  bad \cup { ErrorCountEq0.text \o <<" ">> \o AndAnd \o <<" ">> \o b : b \in bad }
            \cup { b \o <<" ">> \o AndAnd \o <<" ">> \o ErrorCountEq0.text : b \in bad }

\* the conditions evaluateCondition is given
Conditions ==
    BlankConditions
        \cup { c.text : c \in WellFormedClauses }
        \cup { joinClauses(cs) : cs \in Conjunctions }
        \cup { c.text : c \in UnknownVariableClauses }
        \cup MalformedConditions

\* statistics whose field `key` is v and whose other counters are all w
OneFieldApart(key, v, w) ==
    [ NoStats EXCEPT
        !.totalFiles      = IF key = "totalFiles" THEN v ELSE w,
        !.processedFiles  = IF key = "processedFiles" THEN v ELSE w,
        !.successfulFiles = IF key = "successfulFiles" THEN v ELSE w,
        !.failedFiles     = IF key = "failedFiles" THEN v ELSE w,
        !.modifiedFiles   = IF key = "modifiedFiles" THEN v ELSE w,
        !.errorCount      = IF key = "errorCount" THEN v ELSE w ]

\* the statistics evaluateCondition is given: each field in turn over
\* 0 .. MaxCount against the others, and the statistics of the example
StatsValues ==
    { OneFieldApart(f.key, v, w) : f \in Fields, v \in 0..MaxCount, w \in 0..MaxCount }
        \cup { [NoStats EXCEPT !.totalFiles = 5], [NoStats EXCEPT !.totalFiles = 4] }

\* a hook list of one hook with the condition, served at its lifecycle point
ProbeHook(c) == Hook("probe", "afterBatch", c, Cmd_ls)

EvalInit ==
    /\ RunInit
    /\ stats \in StatsValues
    /\ condition \in Conditions
    /\ evalResult = "unevaluated"
    /\ dispatched = <<>>

\* evaluateCondition(condition, stats) is called and returns
EvaluateCondition ==
    /\ evalResult = "unevaluated"
    /\ evalResult' = IF evaluateCondition(condition, stats) THEN "true" ELSE "false"
    /\ UNCHANGED << pc, outcome, cfgVars, condition, secondRun, stats, logVars, loopVars,
                    phase, cancelVars, agentVars, dashVars, hookVars >>

\* executeHooks(hooks, 'afterBatch', stats) on the one-hook list, no host call raising
ExecuteProbeHook ==
    /\ dispatched = <<>>
    /\ dispatched' = executeHooks(<< ProbeHook(condition) >>, "afterBatch", stats, {})
    /\ UNCHANGED << pc, outcome, cfgVars, evalVars, secondRun, stats, logVars, loopVars, phase,
                    cancelVars, agentVars, dashVars, hookCalls >>

EvalNext ==
    \/ EvaluateCondition
    \/ ExecuteProbeHook

EvalSpec == EvalInit /\ [][EvalNext]_vars


(***************************************************************************)
(* Vocabulary of the properties.                                           *)
(***************************************************************************)
\* the run has left the per-file loop and is in its completion step
AtCompletion ==
    \/ pc \in {"setEndTime", "appendSummary", "notify"}
    \/ pc \in {"refresh", "hooks", "appendHookBlock"} /\ phase = "afterBatch"
    \/ pc = "ended" /\ outcome = "completed"

\* the current file has been submitted to the agent and its iteration is not over
FileSubmitted ==
    \/ pc \in {"pressButton", "pollStatus", "countProcessed", "appendTaskLog"}
    \/ pc \in {"refresh", "hooks"} /\ phase \in {"onError", "afterFile"}

\* the statistics are about to be handed to an observer: to the hooks of a
\* lifecycle point, to a log block that prints them, or to the dashboard
Observed ==
    \/ pc = "hooks"
    \/ pc = "createLog"
    \/ pc = "appendTaskLog" /\ logFilePath = "file"
    \/ pc = "appendSummary"
    \/ pc = "notify"

\* number of '-- Task Completed --' blocks in the log
TaskBlocks(log) == Cardinality({k \in 1..Len(log) : log[k].kind = "taskCompleted"})

\* nothing of a run has happened
NoRunEffects ==
    /\ configLoads = 0
    /\ hooks = <<>>
    /\ \A p \in LifecyclePoints : hookCalls[p] = 0
    /\ dispatched = <<>>
    /\ logFilePath = "null" /\ logFile = <<>> /\ appendAttempts = 0
    /\ agentCalls.startNewTask = 0 /\ agentCalls.pressPrimaryButton = 0
    /\ agentCalls.getTaskMessages = 0
    /\ ~latestResult.defined /\ posted = <<>>
    /\ stats = NoStats

(***************************************************************************)
(* C1.  When a run on which cancellation was never requested reaches its   *)
(* completion step, its statistics are final and, with N files selected    *)
(* and F driver calls having thrown: processedFiles = N, successfulFiles + *)
(* failedFiles = N, failedFiles = F and errorCount = F.                    *)
(***************************************************************************)
C1_FinalStatistics ==
    (AtCompletion /\ ~cancelRequested) =>
        /\ stats.totalFiles = nFiles
        /\ stats.processedFiles = nFiles
        /\ stats.successfulFiles + stats.failedFiles = nFiles
        /\ stats.failedFiles = driverFailures
        /\ stats.errorCount = driverFailures

C1_Witness ==
    /\ pc = "ended" /\ outcome = "completed" /\ ~cancelRequested
    /\ nFiles = 2 /\ driverFailures = 1
    /\ stats.successfulFiles = 1 /\ stats.failedFiles = 1

(***************************************************************************)
(* C2.  As claimed: at every point where the statistics are handed to an   *)
(* observer, processedFiles = successfulFiles + failedFiles.  This fails   *)
(* at the onError hooks, which run between failedFiles++ and               *)
(* processedFiles++.                                                       *)
(***************************************************************************)
C2_Original_ObservedBalanced ==
    Observed => stats.processedFiles = stats.successfulFiles + stats.failedFiles

(***************************************************************************)
(* C2, amended.  At every observation point other than the onError hooks   *)
(* processedFiles = successfulFiles + failedFiles; at the onError hooks    *)
(* the failed file is already in failedFiles and not yet in                *)
(* processedFiles, so processedFiles = successfulFiles + failedFiles - 1.  *)
(***************************************************************************)
C2_ObservedBalancedExceptOnError ==
    Observed =>
        IF pc = "hooks" /\ phase = "onError"
        THEN stats.processedFiles + 1 = stats.successfulFiles + stats.failedFiles
        ELSE stats.processedFiles = stats.successfulFiles + stats.failedFiles

C2_Witness ==
    /\ pc = "hooks" /\ phase = "onError"
    /\ stats.processedFiles = 1 /\ stats.successfulFiles = 1 /\ stats.failedFiles = 1

(***************************************************************************)
(* C3.  processedFiles <= totalFiles in every reachable state, and         *)
(* totalFiles is written by no step other than the initialisation of the   *)
(* statistics, which sets it to the number of selected files.              *)
(***************************************************************************)
C3_ProcessedBoundedTotalFixed ==
    /\ [](stats.processedFiles <= stats.totalFiles)
    /\ [][ IF pc = "initStats"
           THEN stats'.totalFiles = nFiles
           ELSE stats'.totalFiles = stats.totalFiles ]_vars

C3_Witness ==
    /\ pc = "loopTop"
    /\ stats.totalFiles = 2 /\ stats.processedFiles = 2

(***************************************************************************)
(* C4.  As claimed: once the per-file loop has started on a file (its      *)
(* beforeFile hooks have been run), no error ends the run: the command     *)
(* never ends by a thrown error, short of its completion step.             *)
(***************************************************************************)
C4_NoErrorAbortsStartedLoop ==
    hookCalls["beforeFile"] > 0 => outcome # "failed"

(***************************************************************************)
(* C5.  A driver call that throws is counted once in failedFiles and once  *)
(* in errorCount and never in successfulFiles; the onError hooks of the    *)
(* file run before processedFiles is incremented; the file is counted in   *)
(* processedFiles before its afterFile hooks; and the file is not          *)
(* submitted again: the submissions made are one per file started, so the  *)
(* next submission is that of the next file.                               *)
(***************************************************************************)
C5_DriverFailureHandled ==
    /\ stats.failedFiles = driverFailures
    /\ stats.errorCount = driverFailures
    /\ stats.successfulFiles + driverFailures
          = agentCalls.startNewTask - (IF pc \in {"pressButton", "pollStatus"} THEN 1 ELSE 0)
    /\ (pc \in {"refresh", "hooks"} /\ phase = "onError") =>
          /\ driverExit = "threw" /\ taskStatus = "failed"
          /\ stats.processedFiles = i
          /\ hookCalls["onError"] = driverFailures - 1
    /\ (pc = "countProcessed" /\ driverExit = "threw") =>
          /\ stats.processedFiles = i
          /\ hookCalls["onError"] = driverFailures
    /\ (pc = "appendTaskLog" \/ (pc \in {"refresh", "hooks"} /\ phase = "afterFile")) =>
          /\ stats.processedFiles = i + 1
          /\ hookCalls["onError"] = driverFailures
    /\ pc # "ended" =>
          agentCalls.startNewTask = i + (IF FileSubmitted THEN 1 ELSE 0)

C5_Witness ==
    /\ pc = "pressButton" /\ i = 1
    /\ driverFailures = 1 /\ hookCalls["onError"] = 1
    /\ stats.failedFiles = 1 /\ stats.errorCount = 1 /\ stats.successfulFiles = 0
    /\ stats.processedFiles = 1 /\ agentCalls.startNewTask = 2

(***************************************************************************)
(* C6.  If cancellation is requested between two files, after k < N files  *)
(* have been processed, then from that moment on processedFiles stays k,   *)
(* no task is submitted to the agent, no beforeFile, onError or afterFile  *)
(* hook is run, and the run is at the top of the loop or past the loop.    *)
(***************************************************************************)
C6_CancelBetweenFiles ==
    (cancelSnap.taken /\ ~cancelSnap.inProgress /\ cancelSnap.processed < nFiles) =>
        /\ stats.processedFiles = cancelSnap.processed
        /\ agentCalls.startNewTask = cancelSnap.submitted
        /\ FileHookCalls = cancelSnap.fileHookCalls
        /\ pc = "loopTop" \/ AtCompletion \/ pc = "ended"

C6_Witness ==
    /\ cancelSnap.taken /\ ~cancelSnap.inProgress /\ cancelSnap.processed = 1
    /\ nFiles = 2
    /\ pc = "ended" /\ outcome = "completed"
    /\ stats.processedFiles = 1 /\ agentCalls.startNewTask = 1

(***************************************************************************)
(* C7.  If cancellation is requested while file c is in progress, the loop *)
(* is left only after that file's iteration is over: when the run is in    *)
(* its completion step the driver call of file c has ended by itself, the  *)
(* file is counted in processedFiles, its afterFile hooks have run, its    *)
(* task-completion block is in the log (when there is one), and no later   *)
(* file was submitted.                                                     *)
(***************************************************************************)
C7_CancelDuringFile ==
    (cancelSnap.taken /\ cancelSnap.inProgress /\ AtCompletion) =>
        /\ i = cancelSnap.i + 1
        /\ stats.processedFiles = i
        /\ hookCalls["beforeFile"] = i
        /\ hookCalls["afterFile"] = i
        /\ agentCalls.startNewTask = i
        /\ driverExit \in {"terminal", "timeout", "threw"}
        /\ logFilePath = "file" => TaskBlocks(logFile) = i

C7_Witness ==
    /\ cancelSnap.taken /\ cancelSnap.inProgress /\ cancelSnap.i = 0
    /\ nFiles = 2 /\ logFilePath = "file"
    /\ pc = "ended" /\ outcome = "completed"
    /\ stats.processedFiles = 1 /\ TaskBlocks(logFile) = 1

(***************************************************************************)
(* C8.  When every status poll of a driver call up to the wait budget      *)
(* answered `active`, the call returns without an error, the file is       *)
(* counted as successful and not as failed, and the iteration goes on to   *)
(* processedFiles++ and from there to the next file.                       *)
(***************************************************************************)
C8_TimeoutIsSuccess ==
    waitExpired =>
        /\ driverExit = "timeout"
        /\ taskStatus = "success"
        /\ stats.successfulFiles + driverFailures = agentCalls.startNewTask
        /\ stats.failedFiles = driverFailures
        /\ pc \in {"countProcessed", "appendTaskLog", "loopTop", "startTask", "ended"}
              \/ (pc \in {"refresh", "hooks"} /\ phase \in {"afterFile", "beforeFile"})
              \/ AtCompletion
        /\ pc = "startTask" => (i = stats.processedFiles /\ i = agentCalls.startNewTask)

C8_Witness ==
    /\ waitExpired /\ pc = "startTask" /\ i = 1 /\ nFiles = 2
    /\ stats.successfulFiles = 1 /\ stats.failedFiles = 0 /\ stats.processedFiles = 1

(***************************************************************************)
(* C9.  When createBatchLogFile has returned null the run goes on without  *)
(* a log: nothing is ever appended or fetched for the log, the run cannot  *)
(* end by a thrown error, and when it has ended the beforeBatch and        *)
(* afterBatch hooks have run once, the beforeFile and afterFile hooks once *)
(* per processed file, the onError hooks once per failed file, the         *)
(* dashboard has been notified, and every selected file was processed      *)
(* unless cancellation was requested.                                      *)
(***************************************************************************)
C9_RunsWithoutLog ==
    (logFilePath = "null" /\ phase # "none") =>
        /\ appendAttempts = 0 /\ logFile = <<>>
        /\ agentCalls.getTaskMessages = 0
        /\ outcome # "failed"
        /\ pc = "ended" =>
              /\ outcome = "completed"
              /\ latestResult = Result(stats)
              /\ hookCalls["beforeBatch"] = 1 /\ hookCalls["afterBatch"] = 1
              /\ hookCalls["beforeFile"] = stats.processedFiles
              /\ hookCalls["afterFile"] = stats.processedFiles
              /\ hookCalls["onError"] = stats.failedFiles
              /\ ~cancelRequested => stats.processedFiles = nFiles

C9_Witness ==
    /\ logFilePath = "null" /\ pc = "ended" /\ outcome = "completed"
    /\ nFiles = 2 /\ stats.processedFiles = 2 /\ stats.failedFiles = 1
    /\ latestResult.defined

(***************************************************************************)
(* C10.  An empty selection ends the run at the selection step, and an     *)
(* undefined task description ends it at the task step; in both cases the  *)
(* run ends without an error and nothing of a run has happened: no hook    *)
(* configuration loaded, no hook run, no log file, no agent call, no       *)
(* dashboard notification.                                                 *)
(***************************************************************************)
C10_EarlyExitNoEffects ==
    /\ (nFiles = 0 /\ pc \notin {"idle", "selectFiles"} /\ outcome # "failed") =>
          (pc = "ended" /\ outcome = "noFiles")
    /\ taskDescription = "undefined" => (pc = "ended" /\ outcome = "noTask")
    /\ outcome \in {"noFiles", "noTask"} => (pc = "ended" /\ NoRunEffects)

C10_Witness ==
    /\ pc = "ended" /\ outcome = "noTask" /\ taskDescription = "undefined" /\ nFiles = 2

(***************************************************************************)
(* C11.  When step 1 finds the agent extension not installed, or finds no  *)
(* API in its exports after activation, the command ends at once with an   *)
(* error: file selection never happens (no file, no task description),     *)
(* no hook is loaded or run, no log is created, no agent call is made.     *)
(***************************************************************************)
C11_AgentUnavailableFailsBeforeSelection ==
    clineExtension \in {"notInstalled", "noExports"} =>
        /\ pc = "ended" /\ outcome = "failed"
        /\ nFiles = 0 /\ taskDescription = "unset"
        /\ NoRunEffects

\* the API was absent after activation and the command has ended
C11_Witness ==
    clineExtension = "noExports" /\ pc = "ended" /\ outcome = "failed"

\* the lifecycle points served so far, in order, read off the `start` lines
\* of hookLogs (onError, which is not a point of every file, left out)
PointsServed ==
    SelectSeq(hookLogs, LAMBDA l : l.what = "start" /\ l.runAt # "onError")

\* evaluateCondition, called on its own, has returned
Evaluated == evalResult # "unevaluated"

\* executeHooks, called on the one-hook list, has taken the hook
ProbeTaken == pc = "idle" /\ dispatched # <<>>

\* runHooksWithLogging has just returned for the lifecycle point `phase`;
\* the statistics are still those its hooks were given
HooksJustRun ==
    \/ pc = "startTask" /\ phase = "beforeFile"
    \/ pc = "countProcessed" /\ phase = "onError"
    \/ pc = "appendTaskLog" /\ phase = "afterFile"
    \/ pc = "appendHookBlock"

\* the hooks of the list that belong to the lifecycle point being served
TargetHooks == SelectSeq(hooks, LAMBDA h : h.runAt = phase)

\* the condition of hook h does not hold for the statistics
ConditionFalse(h) == h.condition # <<>> /\ ~evaluateCondition(h.condition, stats)

(***************************************************************************)
(* C12.  In a run that got past the task description, the lifecycle        *)
(* points are served in this order: beforeBatch once, before any file;     *)
(* then, file by file in selection order, beforeFile, the submission to    *)
(* the agent, afterFile, the beforeFile of a file never preceding the      *)
(* afterFile of the file before it; then afterBatch once, after the last   *)
(* processed file, and after it nothing more.                              *)
(***************************************************************************)
C12_LifecycleOrder ==
    LET served == PointsServed
        subs   == agentCalls.startNewTask
    IN  /\ \A k \in 1..Len(served) :
              CASE served[k].runAt = "beforeBatch" -> k = 1
                [] served[k].runAt = "beforeFile"  ->
                      /\ k >= 2 /\ k % 2 = 0
                      /\ served[k].file = (k - 2) \div 2
                      /\ served[k - 1].runAt \in {"beforeBatch", "afterFile"}
                [] served[k].runAt = "afterFile"   ->
                      /\ k >= 3 /\ k % 2 = 1
                      /\ served[k].file = (k - 3) \div 2
                      /\ served[k - 1].runAt = "beforeFile"
                [] served[k].runAt = "afterBatch"  ->
                      /\ k = Len(served) /\ k >= 2
                      /\ served[k - 1].runAt \in {"beforeBatch", "afterFile"}
        \* the submission of a file lies between its beforeFile and its afterFile
        /\ hookCalls["afterFile"] <= subs
        /\ subs <= hookCalls["beforeFile"]
        /\ hookCalls["beforeFile"] <= hookCalls["afterFile"] + 1
        /\ (pc \in {"pressButton", "pollStatus"}) => subs = hookCalls["afterFile"] + 1
        /\ subs > 0 => hookCalls["beforeBatch"] = 1
        \* a run that completes has served afterBatch once, after its last file
        /\ (pc = "ended" /\ outcome = "completed") =>
              /\ hookCalls["beforeBatch"] = 1 /\ hookCalls["afterBatch"] = 1
              /\ hookCalls["beforeFile"] = stats.processedFiles
              /\ hookCalls["afterFile"] = stats.processedFiles
              /\ subs = stats.processedFiles

\* a completed run over two files
C12_Witness ==
    /\ pc = "ended" /\ outcome = "completed"
    /\ stats.processedFiles = 2
    /\ Len(PointsServed) = 6

(***************************************************************************)
(* C13.  At a lifecycle point executeHooks takes the matching hooks one    *)
(* after the other in the order of the loaded list, and a hook whose       *)
(* condition evaluates to false is skipped: nothing is sent for it, to     *)
(* the command bus or to a terminal; every other matching hook has its     *)
(* command sent.                                                           *)
(***************************************************************************)
C13_HooksInListOrderSkippedNotDispatched ==
    HooksJustRun =>
        /\ Len(dispatched) = Len(TargetHooks)
        /\ \A k \in 1..Len(dispatched) :
              /\ dispatched[k].hook = TargetHooks[k].name
              /\ ConditionFalse(TargetHooks[k]) =>
                    dispatched[k].target = "skipped" /\ dispatched[k].text = <<>>
              /\ ~ConditionFalse(TargetHooks[k]) =>
                    dispatched[k].target \in {"commandBus", "terminal"}

\* afterFile of a failed file: `clean` is skipped, `report` after it is executed
C13_Witness ==
    /\ HooksJustRun /\ phase = "afterFile"
    /\ Len(dispatched) = 2
    /\ dispatched[1].hook = "clean" /\ dispatched[1].target = "skipped"
    /\ dispatched[2].hook = "report" /\ dispatched[2].target = "commandBus"

(***************************************************************************)
(* C14.  When the command of a hook raises an error, executeHooks catches  *)
(* it: every later matching hook of the lifecycle point is still taken     *)
(* (executed, or skipped on its condition), and runHooksWithLogging        *)
(* returns to startBatchProcessing, which goes on -- its last line in      *)
(* hookLogs is `completed` and the command has not ended.                  *)
(***************************************************************************)
C14_HookErrorCaught ==
    (HooksJustRun /\ \E k \in 1..Len(dispatched) : dispatched[k].threw) =>
        /\ Len(dispatched) = Len(TargetHooks)
        /\ \A j \in 1..Len(dispatched) :
              ~ConditionFalse(TargetHooks[j]) => dispatched[j].target # "skipped"
        /\ hookLogs[Len(hookLogs)].what = "completed"
        /\ hookLogs[Len(hookLogs)].runAt = phase
        /\ pc # "ended" /\ outcome = "none"

\* the command of `clean` raised, `report` after it was executed all the same
C14_Witness ==
    /\ HooksJustRun /\ phase = "afterFile"
    /\ Len(dispatched) = 2
    /\ dispatched[1].threw
    /\ dispatched[2].hook = "report" /\ dispatched[2].target = "commandBus"

(***************************************************************************)
(* C15.  Whatever the statistics, evaluateCondition returns true for the   *)
(* empty condition and for a condition of white space only, and a hook     *)
(* whose condition is absent or blank is executed when its lifecycle       *)
(* point is served.                                                        *)
(***************************************************************************)
C15_BlankConditionTrue ==
    (\A k \in 1..Len(condition) : condition[k] \in {" ", "\t"}) =>
        /\ Evaluated => evalResult = "true"
        /\ ProbeTaken => dispatched[1].target = "terminal"

\* a condition of two spaces evaluated, and the hook that carries it executed
C15_Witness ==
    /\ condition = <<" ", " ">>
    /\ evalResult = "true"
    /\ ProbeTaken /\ dispatched[1].target = "terminal"

(***************************************************************************)
(* C16.  For a single clause '<field> <op> <integer>', with the field one  *)
(* of the six statistics fields and op one of >=, <=, ==, >, <,            *)
(* evaluateCondition returns the mathematical comparison of the value of   *)
(* that field with the integer ('>=' and '<=' are not read as '>' and      *)
(* '<').                                                                   *)
(***************************************************************************)
C16_SingleClauseIsComparison ==
    \A c \in WellFormedClauses :
        (condition = c.text /\ Evaluated) =>
            ((evalResult = "true") <=> Compare(stats[c.key], c.op, c.n))

\* 'processedFiles >= 1' evaluated to true at processedFiles = 1, where
\* 'processedFiles > 1' does not hold
C16_Witness ==
    /\ condition = Clause(N_processedFiles, OpGe, <<"1">>)
    /\ stats.processedFiles = 1
    /\ evalResult = "true"

(***************************************************************************)
(* C17.  A condition of several well-formed clauses joined by '&&'         *)
(* evaluates to true exactly when every one of its clauses holds for the   *)
(* statistics (so 'totalFiles >= 5 && errorCount == 0' is true at          *)
(* totalFiles = 5, errorCount = 0 and false at totalFiles = 4).            *)
(***************************************************************************)
C17_ConjunctionOfClauses ==
    \A cs \in Conjunctions :
        (condition = joinClauses(cs) /\ Evaluated) =>
            ((evalResult = "true") <=>
                \A k \in 1..Len(cs) : Compare(stats[cs[k].key], cs[k].op, cs[k].n))

\* the example at totalFiles = 4: the second clause holds, the first does not
C17_Witness ==
    /\ condition = joinClauses(<<TotalFilesGe5, ErrorCountEq0>>)
    /\ stats.totalFiles = 4 /\ stats.errorCount = 0
    /\ evalResult = "false"

(***************************************************************************)
(* C18.  As claimed: a condition with a malformed clause (a clause with    *)
(* no operator of the grammar, or a right-hand side that is no integer)    *)
(* evaluates to false, evaluateCondition returning normally, and the hook  *)
(* that carries it is never executed.                                      *)
(***************************************************************************)
C18_MalformedClauseIsFalse ==
    condition \in MalformedConditions =>
        /\ Evaluated => evalResult = "false"
        /\ ProbeTaken => dispatched[1].target = "skipped"

(***************************************************************************)
(* C19.  In a clause whose variable is none of the six field names the     *)
(* variable counts as 0: the clause '<unknown> <op> <integer>' evaluates   *)
(* to the comparison of 0 with the integer ('unknown >= 0' is true,        *)
(* 'unknown > 0' is false).                                                *)
(***************************************************************************)
C19_UnknownVariableIsZero ==
    \A c \in UnknownVariableClauses :
        (condition = c.text /\ Evaluated) =>
            ((evalResult = "true") <=> Compare(0, c.op, c.n))

\* 'unknown >= 0' evaluated to true
C19_Witness ==
    /\ condition = Clause(N_unknown, OpGe, <<"0">>)
    /\ evalResult = "true"

(***************************************************************************)
(* C20.  As claimed: a clause that names an unknown variable evaluates to  *)
(* false whatever the statistics, the operator and the integer.            *)
(***************************************************************************)
C20_Original_UnknownVariableIsFalse ==
    \A c \in UnknownVariableClauses :
        (condition = c.text /\ Evaluated) => evalResult = "false"

(***************************************************************************)
(* C20, amended.  A clause that names an unknown variable is evaluated     *)
(* without an error, and it is refused -- evaluateCondition returns false  *)
(* and the hook that carries it is skipped -- exactly when the comparison  *)
(* of 0 with its integer fails; otherwise the hook is executed.            *)
(***************************************************************************)
C20_UnknownVariableRefusedOnlyWhenZeroFails ==
    \A c \in UnknownVariableClauses :
        condition = c.text =>
            /\ evalResult \in {"unevaluated", "true", "false"}
            /\ Evaluated => ((evalResult = "false") <=> ~Compare(0, c.op, c.n))
            /\ ProbeTaken =>
                  IF Compare(0, c.op, c.n)
                  THEN dispatched[1].target = "terminal"
                  ELSE dispatched[1].target = "skipped"

\* the hook with 'TotalFiles <= 1' was executed at totalFiles = 2
C20_Witness ==
    /\ condition = Clause(N_TotalFiles, OpLe, <<"1">>)
    /\ stats.totalFiles = 2
    /\ evalResult = "true"
    /\ ProbeTaken /\ dispatched[1].target = "terminal"

(***************************************************************************)
(* C21.  With the log open, after each file -- whenever the loop is at     *)
(* the top of an iteration, and from the end of the loop on -- the number  *)
(* of '-- Task Completed --' blocks in the log equals processedFiles, and  *)
(* when a run on which cancellation was never requested has left the       *)
(* loop, it equals totalFiles.  Inside an iteration the file counted last  *)
(* has at most its own block still to come.                                *)
(***************************************************************************)
C21_TaskBlockPerProcessedFile ==
    logFilePath = "file" =>
        /\ TaskBlocks(logFile) <= stats.processedFiles
        /\ stats.processedFiles <= TaskBlocks(logFile) + 1
        /\ (pc = "loopTop" \/ AtCompletion) => TaskBlocks(logFile) = stats.processedFiles
        /\ (AtCompletion /\ ~cancelRequested) => TaskBlocks(logFile) = stats.totalFiles

\* a run over two files, never cancelled, has ended with two blocks in its log
C21_Witness ==
    /\ pc = "ended" /\ outcome = "completed" /\ ~cancelRequested
    /\ logFilePath = "file"
    /\ stats.totalFiles = 2
    /\ TaskBlocks(logFile) = 2

(***************************************************************************)
(* C22.  The log is only ever appended to, one block at a time, and its    *)
(* blocks come in this order: the header, the beforeBatch hook-run block,  *)
(* one task-completion block per processed file in selection order, the    *)
(* afterBatch hook-run block, and the summary block last; the totals the   *)
(* summary prints are those of the final statistics.                       *)
(***************************************************************************)
C22_LogAppendOnlyInOrder ==
    /\ [](\A k \in 1..Len(logFile) :
            CASE logFile[k].kind = "header" -> k = 1
              [] logFile[k].kind = "hookRuns" /\ logFile[k].title = "beforeBatch" -> k = 2
              [] logFile[k].kind = "taskCompleted" ->
                    /\ k >= 3
                    /\ logFile[k].file = k - 3
                    /\ \/ logFile[k - 1].kind = "taskCompleted"
                       \/ logFile[k - 1].kind = "hookRuns" /\ logFile[k - 1].title = "beforeBatch"
              [] logFile[k].kind = "hookRuns" /\ logFile[k].title = "afterBatch" ->
                    /\ k >= 3 /\ k >= Len(logFile) - 1
                    /\ \/ logFile[k - 1].kind = "taskCompleted"
                       \/ logFile[k - 1].kind = "hookRuns" /\ logFile[k - 1].title = "beforeBatch"
              [] logFile[k].kind = "summary" ->
                    /\ k >= 4 /\ k = Len(logFile)
                    /\ logFile[k - 1].kind = "hookRuns" /\ logFile[k - 1].title = "afterBatch"
              [] OTHER -> FALSE)
    /\ []((pc = "ended" /\ outcome = "completed" /\ logFilePath = "file") =>
            /\ logFile[Len(logFile)].kind = "summary"
            /\ logFile[Len(logFile)].files = FilesLine(stats)
            /\ Len(logFile) = stats.processedFiles + 4)
    /\ [][ \/ logFile' = logFile
           \/ /\ Len(logFile') = Len(logFile) + 1
              /\ SubSeq(logFile', 1, Len(logFile)) = logFile ]_vars

\* the log of a completed run over two files, one of which failed
C22_Witness ==
    /\ pc = "ended" /\ outcome = "completed"
    /\ logFilePath = "file"
    /\ Len(logFile) = 6
    /\ logFile[6].kind = "summary" /\ logFile[6].files.failed = 1

(***************************************************************************)
(* Vocabulary of the claims about the end of the loop, the counters and    *)
(* the driver.                                                             *)
(***************************************************************************)
\* the four counters of the statistics that the loop increments
Counters == {"processedFiles", "successfulFiles", "failedFiles", "errorCount"}

\* the fields of the statistics other than modifiedFiles
FieldsButModified ==
    {"totalFiles", "processedFiles", "successfulFiles", "failedFiles", "errorCount", "endTime"}

\* a driver call is in progress: between the submission and the return or throw
InDriver == pc \in {"pressButton", "pollStatus"}

(***************************************************************************)
(* C26.  endTime is unset from the creation of the statistics to the end   *)
(* of the loop, and is set in one step, the first after the loop has       *)
(* ended -- by exhaustion of the files or by cancellation --, never        *)
(* changed again; so the afterBatch hooks, the summary and the dashboard   *)
(* notification all see statistics whose endTime is set.                   *)
(***************************************************************************)
C26_EndTimeSetOnceAfterLoop ==
    /\ [](stats.endTime = "now" <=> phase = "afterBatch")
    /\ []((InLoop \/ pc = "setEndTime") => stats.endTime = "undefined")
    /\ []((hookCalls["afterBatch"] > 0 \/ pc \in {"appendSummary", "notify"}) =>
             stats.endTime = "now")
    /\ [](latestResult.defined => latestResult.stats.endTime = "now")
    /\ [][ stats'.endTime # stats.endTime =>
             /\ pc = "setEndTime" /\ pc' = "refresh" /\ phase' = "afterBatch"
             /\ stats.endTime = "undefined" /\ stats'.endTime = "now"
             /\ hookCalls["afterBatch"] = 0 /\ ~latestResult.defined ]_vars

\* a cancelled run has published statistics that carry its end time
C26_Witness ==
    /\ pc = "ended" /\ outcome = "completed" /\ cancelRequested
    /\ stats.processedFiles < stats.totalFiles
    /\ hookCalls["afterBatch"] = 1
    /\ latestResult.defined /\ latestResult.stats.endTime = "now"

(***************************************************************************)
(* C27.  processedFiles, successfulFiles, failedFiles and errorCount never *)
(* decrease; a step changes each of them by at most 1, and none of them    *)
(* ever exceeds the number of files submitted so far.                      *)
(***************************************************************************)
C27_CountersMonotoneByOne ==
    /\ [][ \A c \in Counters : stats'[c] = stats[c] \/ stats'[c] = stats[c] + 1 ]_vars
    /\ [](\A c \in Counters : stats[c] <= agentCalls.startNewTask)
    /\ [](pc = "loopTop" => \A c \in Counters : stats[c] <= i)

\* two files processed, one of them failed
C27_Witness ==
    /\ pc = "loopTop"
    /\ stats.processedFiles = 2 /\ stats.successfulFiles = 1
    /\ stats.failedFiles = 1 /\ stats.errorCount = 1

(***************************************************************************)
(* C28.  For each file the driver makes exactly one submission, then       *)
(* exactly one primary-confirmation, then its status polls: no poll is     *)
(* made before the confirmation, no confirmation before the submission,    *)
(* and a submission that fails is followed by neither.                     *)
(***************************************************************************)
C28_SubmitConfirmPoll ==
    /\ [](pc = "pressButton" =>
            driverCalls = [NoDriverCalls EXCEPT !.startNewTask = 1])
    /\ [](pc = "pollStatus" =>
            /\ driverCalls.startNewTask = 1
            /\ driverCalls.pressPrimaryButton = 1
            /\ driverCalls.getTaskStatus * checkInterval = elapsedTime)
    /\ [](~InDriver => driverCalls = NoDriverCalls)
    /\ [](agentCalls.startNewTask = IF InDriver THEN i + 1
                                    ELSE IF pc = "loopTop" THEN i
                                    ELSE agentCalls.startNewTask)
    /\ [](polledStatus # "unasked" => agentCalls.pressPrimaryButton > 0)
    /\ [][ agentCalls'.pressPrimaryButton # agentCalls.pressPrimaryButton =>
             /\ pc = "pressButton"
             /\ agentCalls'.pressPrimaryButton = agentCalls.pressPrimaryButton + 1
             /\ polledStatus = "unasked" ]_vars
    /\ [][ polledStatus' # polledStatus /\ polledStatus' # "unasked" =>
             pc = "pollStatus" /\ driverCalls.pressPrimaryButton = 1 ]_vars
    /\ [][ (pc = "startTask" /\ pc' # "startTask" /\ pc' # "pressButton") =>
             /\ driverExit' = "threw" /\ taskStatus' = "failed"
             /\ phase' = "onError"
             /\ agentCalls'.pressPrimaryButton = agentCalls.pressPrimaryButton
             /\ polledStatus' = "unasked" /\ driverCalls' = NoDriverCalls ]_vars

\* file 0's submission failed and was never confirmed; file 1 was submitted,
\* confirmed once and is being polled
C28_Witness ==
    /\ pc = "pollStatus" /\ i = 1
    /\ driverFailures = 1
    /\ agentCalls.startNewTask = 2 /\ agentCalls.pressPrimaryButton = 1
    /\ driverCalls.getTaskStatus = 1

(***************************************************************************)
(* C30.  A refresh of the modified-files count that fails, or that finds   *)
(* version control unavailable, leaves the statistics as they were; a      *)
(* refresh that succeeds changes modifiedFiles and no other field.         *)
(***************************************************************************)
C30_RefreshFrame ==
    /\ [](ApplyGitCount(stats, GitNull) = stats)
    /\ [](\A g \in GitCounts :
            /\ \A f \in FieldsButModified : ApplyGitCount(stats, g)[f] = stats[f]
            /\ ~g.isNull => ApplyGitCount(stats, g).modifiedFiles = g.count)
    /\ [][ pc = "refresh" =>
             /\ \A f \in FieldsButModified : stats'[f] = stats[f]
             /\ ~gitAvailable => stats' = stats
             /\ stats'.modifiedFiles \in {stats.modifiedFiles} \cup 0..MaxModified ]_vars
    /\ [][ stats'.modifiedFiles # stats.modifiedFiles => pc = "refresh" /\ gitAvailable ]_vars

\* refreshes around a processed file: one has counted a modified file, the
\* counters of the file are as the loop left them
C30_Witness ==
    /\ pc = "hooks" /\ phase = "afterFile"
    /\ gitAvailable
    /\ stats.modifiedFiles = 1
    /\ stats.processedFiles = 1

(***************************************************************************)
(* C29.  The wait loop of the driver goes round again only after the       *)
(* status "active", and does so while the budget lasts; it is left at the  *)
(* first answer "completed", "cancelled" or "none", at a rejected call, or *)
(* at the answer "active" that uses up the budget.  The polls of one file  *)
(* never exceed maxWaitTime / checkInterval = 120, and every driver call   *)
(* that was started comes to its end.                                      *)
(***************************************************************************)
C29_PollingStopsAndIsBounded ==
    /\ [](MaxPolls = 120)
    /\ [](pc = "pollStatus" =>
            /\ driverCalls.getTaskStatus < MaxPolls
            /\ polledStatus = IF driverCalls.getTaskStatus = 0 THEN "unasked" ELSE "active")
    /\ [][ (pc = "pollStatus" /\ pc' = "pollStatus" /\ driverCalls' # driverCalls) =>
             /\ polledStatus' = "active"
             /\ driverCalls'.getTaskStatus = driverCalls.getTaskStatus + 1
             /\ elapsedTime' = elapsedTime + checkInterval ]_vars
    /\ [][ (pc = "pollStatus" /\ pc' # "pollStatus") =>
             \/ /\ isTerminalStatus(polledStatus')
                /\ driverExit' = "terminal" /\ pc' = "countProcessed"
             \/ /\ polledStatus' = "throws"
                /\ driverExit' = "threw" /\ phase' = "onError"
             \/ /\ polledStatus' = "active"
                /\ driverCalls.getTaskStatus + 1 = MaxPolls
                /\ driverExit' = "timeout" /\ pc' = "countProcessed" ]_vars
    /\ ((pc = "startTask" \/ InDriver) ~> ~(pc = "startTask" \/ InDriver))

\* the agent has answered "active" 119 times and the last poll of the budget
\* is about to be made
C29_Witness ==
    /\ pc = "pollStatus"
    /\ driverCalls.getTaskStatus = MaxPolls - 1
    /\ polledStatus = "active"

(***************************************************************************)
(* C23.  The dashboard retains the result published last: a result         *)
(* published while no view is open is sent to nobody and is retained; a    *)
(* view opened afterwards is sent the result published last, and so is an  *)
(* open view that asks for the latest statistics; as long as no run has    *)
(* published a result, nothing is sent to any view.                        *)
(***************************************************************************)
C23_ResultRetainedForLateViews ==
    /\ [](latestResult = lastPublished)
    /\ [](~lastPublished.defined => posted = <<>>)
    /\ [][ (lastPublished' # lastPublished /\ OpenPanels = {}) =>
             /\ posted' = posted
             /\ latestResult' = lastPublished' /\ latestResult'.defined ]_vars
    /\ [][ Len(panels') > Len(panels) =>
             posted' = IF lastPublished.defined
                       THEN Append(posted, [panel |-> Len(panels'), result |-> lastPublished])
                       ELSE posted ]_vars
    /\ [][ (posted' # posted /\ panels' = panels /\ lastPublished' = lastPublished) =>
             /\ lastPublished.defined
             /\ \E p \in OpenPanels :
                   posted' = Append(posted, [panel |-> p, result |-> lastPublished]) ]_vars

\* two results were published with no view open; the view opened afterwards
\* was sent the second one on opening and again on request
C23_Witness ==
    /\ Len(panels) = 1 /\ panels[1] = "open"
    /\ lastPublished = Result(FinishedRun(2))
    /\ posted = << [panel |-> 1, result |-> Result(FinishedRun(2))],
                   [panel |-> 1, result |-> Result(FinishedRun(2))] >>

(***************************************************************************)
(* C24.  The view that notifications go to is the most recently opened     *)
(* one: whenever the view opened last is still open, it is the active      *)
(* panel, the one a published result is posted to.                         *)
(***************************************************************************)
C24_SubscriberIsLastOpenedView ==
    (Len(panels) > 0 /\ panels[Len(panels)] = "open") => activePanel = Len(panels)

\* the part of the claim that holds: the active panel is never a disposed one
C24_ActivePanelIsOpen ==
    activePanel # 0 => activePanel \in OpenPanels

(***************************************************************************)
(* C25.  No two agent tasks are in flight at the same time: a task is      *)
(* submitted only when no driver call is in progress, also when the        *)
(* command is invoked again while a run is in progress.                    *)
(***************************************************************************)
C25_OneDriverCallAtATime ==
    ~(InDriver /\ secondRun = "inDriver")

\* the part of the claim that holds: within one invocation a file is submitted
\* only when the driver call of the file before it has ended
C25_OneDriverCallPerInvocation ==
    [][ agentCalls'.startNewTask # agentCalls.startNewTask => ~InDriver /\ pc = "startTask" ]_vars

(***************************************************************************)
(* C31.  Running hooks, evaluating their conditions, building and          *)
(* appending log blocks and notifying the dashboard leave every field of   *)
(* the statistics as it was: the statistics change only in the steps of    *)
(* the orchestrator itself -- their creation, the refresh of the           *)
(* modified-files count, the end of a driver call, the count of the        *)
(* processed file and the end time -- and each of these changes only its   *)
(* own fields.                                                             *)
(***************************************************************************)
C31_ObserversLeaveStatistics ==
    /\ [][ (pc \in {"hooks", "appendHookBlock", "appendTaskLog", "appendSummary",
                    "notify", "createLog", "loopTop"}) => stats' = stats ]_vars
    /\ [][ stats' # stats =>
             \/ pc = "initStats" /\ stats' = InitialStats(nFiles)
             \/ /\ pc = "refresh"
                /\ \A f \in FieldsButModified : stats'[f] = stats[f]
             \/ /\ InDriver \/ pc = "startTask"
                /\ \/ stats' = [stats EXCEPT !.successfulFiles = @ + 1]
                   \/ stats' = [stats EXCEPT !.failedFiles = @ + 1, !.errorCount = @ + 1]
             \/ /\ pc = "countProcessed"
                /\ stats' = [stats EXCEPT !.processedFiles = @ + 1]
             \/ /\ pc = "setEndTime"
                /\ stats' = [stats EXCEPT !.endTime = "now"] ]_vars
    /\ [][ << hookCalls, dispatched, logFile, latestResult, posted >>' #
              << hookCalls, dispatched, logFile, latestResult, posted >> => stats' = stats ]_vars
    /\ [](latestResult.defined /\ pc = "ended" => latestResult.stats = stats)

\* a run with hooks at every point and an open log has finished: hooks ran at
\* all five points, blocks were appended, the dashboard was notified, and the
\* statistics are those the loop and the refreshes left
C31_Witness ==
    /\ pc = "ended" /\ outcome = "completed"
    /\ hooks = AllPointsHooks /\ logFilePath = "file"
    /\ \A point \in DOMAIN hookCalls : hookCalls[point] > 0
    /\ stats.processedFiles = 2 /\ stats.successfulFiles = 1 /\ stats.failedFiles = 1
    /\ stats.modifiedFiles = 1
    /\ latestResult.stats = stats

(***************************************************************************)
(* C32.  Every hook that is executed is dispatched to exactly one target:  *)
(* a command that begins with 'vscode:' goes to the command bus of the     *)
(* host under the name that follows the prefix, and no terminal is made    *)
(* for it; any other command is typed, as it stands, into a new terminal   *)
(* and is not sent to the command bus.                                     *)
(***************************************************************************)
C32_OneTargetPerHook ==
    /\ HooksJustRun =>
          \A k \in 1..Len(dispatched) :
             LET h == TargetHooks[k]
                 d == dispatched[k]
                 prefixed == Len(h.command) >= 7 /\
                             SubSeq(h.command, 1, 7) = <<"v", "s", "c", "o", "d", "e", ":">>
             IN  d.target # "skipped" =>
                    /\ d.hook = h.name
                    /\ prefixed =>
                          /\ d.target = "commandBus"
                          /\ <<"v", "s", "c", "o", "d", "e", ":">> \o d.text = h.command
                    /\ ~prefixed =>
                          /\ d.target = "terminal"
                          /\ d.text = h.command
    /\ \A throws \in BOOLEAN :
          /\ dispatchHook(Hook("h", "afterFile", <<>>, <<"v", "s", "c", "o", "d", "e", ":">>), throws)
                = [ hook |-> "h", target |-> "commandBus", text |-> <<>>, threw |-> throws ]
          /\ dispatchHook(Hook("h", "afterFile", <<>>, <<"v", "s", "c", "o", "d", "e">>), throws)
                = [ hook |-> "h", target |-> "terminal",
                    text |-> <<"v", "s", "c", "o", "d", "e">>, threw |-> throws ]
          /\ dispatchHook(Hook("h", "afterFile", <<>>, <<" ">> \o Cmd_reload), throws)
                = [ hook |-> "h", target |-> "terminal",
                    text |-> <<" ">> \o Cmd_reload, threw |-> throws ]

\* afterFile of a file that succeeded: `clean` was typed into a terminal,
\* `report` was sent to the command bus as "r"
C32_Witness ==
    /\ pc = "appendTaskLog" /\ phase = "afterFile"
    /\ Len(dispatched) = 2
    /\ dispatched[1].hook = "clean" /\ dispatched[1].target = "terminal"
    /\ dispatched[1].text = Cmd_ls
    /\ dispatched[2].hook = "report" /\ dispatched[2].target = "commandBus"
    /\ dispatched[2].text = <<"r">>

(***************************************************************************)
(* C33.  For every invocation of a lifecycle point the hook-run log has a  *)
(* start line, followed by a line that records the failure when a hook of  *)
(* the invocation failed to execute, and that records the completion only  *)
(* when the hooks of the invocation executed without a failure.            *)
(***************************************************************************)
C33_FailureOfAHookIsLogged ==
    HooksJustRun =>
        LET n == Len(hookLogs)
            failed == \E k \in 1..Len(dispatched) : dispatched[k].threw
        IN  /\ n >= 2
            /\ hookLogs[n - 1].what = "start" /\ hookLogs[n - 1].runAt = phase
            /\ hookLogs[n].runAt = phase
            /\ failed => hookLogs[n].what = "failed"
            /\ hookLogs[n].what = "completed" => ~failed

\* the part of the claim that holds: every invocation pushes its start line,
\* with the names of the matching hooks, and one more line after it
C33_StartLineRecorded ==
    /\ Len(hookLogs) = 2 * (hookCalls["beforeBatch"] + FileHookCalls + hookCalls["afterBatch"])
    /\ \A k \in 1..Len(hookLogs) :
          hookLogs[k].what = IF k % 2 = 1 THEN "start" ELSE "completed"
    /\ HooksJustRun =>
          /\ hookLogs[Len(hookLogs) - 1].runAt = phase
          /\ hookLogs[Len(hookLogs) - 1].names = hookNames(hooks, phase)

(***************************************************************************)
(* C34.  With the log open, every hook-run line is written to exactly one  *)
(* log block, the first block appended after the line was recorded: the    *)
(* blocks of the log, read in order, hold the lines of hookLogs up to the  *)
(* last append, each once and in the order they were recorded.  The        *)
(* beforeBatch and afterBatch blocks hold the lines of their own           *)
(* invocation, the task block of file i holds the lines of the beforeFile, *)
(* onError and afterFile invocations of file i; a run that reaches its end *)
(* has written every line.  (Stated for runs that no uncaught log error    *)
(* has ended, see C4.)                                                     *)
(***************************************************************************)
C34_EachHookLineInOneBlock ==
    (logFilePath = "file" /\ outcome # "failed") =>
        LET linesOf(b) == IF b.kind \in {"hookRuns", "taskCompleted"} THEN b.lines ELSE << >>
            written[k \in 0..Len(logFile)] ==
                IF k = 0 THEN << >> ELSE written[k - 1] \o linesOf(logFile[k])
            points(b) == [k \in 1..(Len(b.lines) \div 2) |-> b.lines[2 * k - 1].runAt]
        IN  /\ written[Len(logFile)] = SubSeq(hookLogs, 1, lastHookLogIndex)
            /\ \A k \in 1..Len(logFile) :
                  LET b == logFile[k]
                  IN  /\ b.kind = "hookRuns" =>
                            /\ Len(b.lines) = 2
                            /\ \A j \in 1..2 : b.lines[j].runAt = b.title
                      /\ b.kind = "taskCompleted" =>
                            /\ \A j \in 1..Len(b.lines) : b.lines[j].file = b.file
                            /\ points(b) = IF b.status = "failed"
                                           THEN << "beforeFile", "onError", "afterFile" >>
                                           ELSE << "beforeFile", "afterFile" >>
                            /\ Len(b.lines) = 2 * Len(points(b))
            /\ pc \in {"loopTop", "setEndTime", "appendSummary", "notify", "ended"} =>
                  lastHookLogIndex = Len(hookLogs)

\* a finished run of two files, the second of which failed: the log holds the
\* fourteen lines of its seven invocations, six of them in the block of file 1
C34_Witness ==
    /\ pc = "ended" /\ outcome = "completed" /\ logFilePath = "file"
    /\ Len(hookLogs) = 14 /\ lastHookLogIndex = 14
    /\ \E k \in 1..Len(logFile) :
          /\ logFile[k].kind = "taskCompleted" /\ logFile[k].file = 1
          /\ logFile[k].status = "failed"
          /\ logFile[k].lines = SubSeq(hookLogs, 7, 12)

(***************************************************************************)
(* C35.  The onError hooks run for a file if and only if the driver call   *)
(* of that file failed; they run after failedFiles and errorCount were     *)
(* incremented for the file, and before the afterFile hooks of the file.   *)
(***************************************************************************)
C35_OnErrorIffDriverFailed ==
    /\ [](hookCalls["onError"] =
            IF phase = "onError" /\ pc \in {"refresh", "hooks"}
            THEN driverFailures - 1 ELSE driverFailures)
    /\ []((pc \in {"countProcessed", "appendTaskLog"} \/
           (pc \in {"refresh", "hooks"} /\ phase = "afterFile")) =>
            (taskStatus = "failed" <=>
               \E k \in 1..Len(hookLogs) :
                  hookLogs[k].runAt = "onError" /\ hookLogs[k].file = i))
    /\ [][ driverFailures' # driverFailures =>
             /\ driverFailures' = driverFailures + 1
             /\ taskStatus' = "failed" /\ phase' = "onError" /\ pc' = "refresh"
             /\ hookCalls' = hookCalls ]_vars
    /\ [][ hookCalls'["onError"] # hookCalls["onError"] =>
             /\ hookCalls'["onError"] = hookCalls["onError"] + 1
             /\ taskStatus = "failed" /\ driverExit = "threw"
             /\ stats.failedFiles = driverFailures /\ stats.errorCount = driverFailures
             /\ stats.failedFiles = hookCalls'["onError"]
             /\ stats.processedFiles = i
             /\ hookCalls["beforeFile"] = i + 1 /\ hookCalls["afterFile"] = i
             /\ pc' = "countProcessed" ]_vars
    /\ [][ hookCalls'["afterFile"] # hookCalls["afterFile"] =>
             /\ hookCalls["onError"] = driverFailures
             /\ hookCalls["onError"] = stats.failedFiles ]_vars

\* file 0 succeeded and file 1 failed: the onError hooks have run once, for
\* file 1, and its afterFile hooks are about to run
C35_Witness ==
    /\ pc = "hooks" /\ phase = "afterFile" /\ i = 1
    /\ taskStatus = "failed"
    /\ stats.successfulFiles = 1 /\ stats.failedFiles = 1 /\ stats.errorCount = 1
    /\ hookCalls["onError"] = 1 /\ hookCalls["afterFile"] = 1
    /\ \A k \in 1..Len(hookLogs) : hookLogs[k].runAt = "onError" => hookLogs[k].file = 1

(***************************************************************************)
(* C36.  Each selected file is submitted to the agent at most once in a    *)
(* run, in selection order, and the files submitted form a prefix of the   *)
(* selection: the k-th submission of a run is that of file k - 1.  The     *)
(* number of submissions equals the number of files whose processing has   *)
(* started, that is, for which the driver has been called.                 *)
(***************************************************************************)
C36_SubmittedOnceInOrder ==
    /\ [](agentCalls.startNewTask <= nFiles)
    /\ [](pc # "ended" =>
            agentCalls.startNewTask =
               IF pc \in {"pressButton", "pollStatus", "countProcessed", "appendTaskLog"}
                  \/ (pc \in {"refresh", "hooks"} /\ phase \in {"onError", "afterFile"})
               THEN i + 1 ELSE i)
    /\ [](agentCalls.startNewTask = stats.successfulFiles + stats.failedFiles
                                      + (IF InDriver THEN 1 ELSE 0))
    /\ [](agentCalls.startNewTask <= hookCalls["beforeFile"]
          /\ hookCalls["beforeFile"] <= agentCalls.startNewTask + 1)
    /\ [][ agentCalls'.startNewTask # agentCalls.startNewTask =>
             /\ pc = "startTask" /\ phase = "beforeFile"
             /\ i < nFiles /\ i' = i
             /\ agentCalls.startNewTask = i
             /\ agentCalls'.startNewTask = i + 1 ]_vars
    /\ [][ i' # i => i' = i + 1 /\ agentCalls.startNewTask = i' ]_vars

\* of two selected files the first was submitted, failed and was not submitted
\* again; the run was cancelled before the second
C36_Witness ==
    /\ pc = "setEndTime" /\ nFiles = 2 /\ i = 1
    /\ cancelRequested
    /\ driverFailures = 1
    /\ agentCalls.startNewTask = 1

(***************************************************************************)
(* C37.  A run whose loop was ended by cancellation performs the whole     *)
(* completion step, as a run over all the files does: from the loop test   *)
(* that sees the cancellation it goes to the end time, the afterBatch      *)
(* hooks run once, the afterBatch hook-run block and the summary block     *)
(* are appended to an open log, and the dashboard is notified with the     *)
(* statistics of the files processed so far.  (Stated for runs that no     *)
(* uncaught log error has ended, see C4.)                                  *)
(***************************************************************************)
C37_CancelledRunCompletes ==
    /\ [][ (pc = "loopTop" /\ cancelRequested /\ pc' # pc) =>
             pc' = "setEndTime" /\ stats' = stats /\ i' = i ]_vars
    /\ [][ (cancelRequested /\ AtCompletion /\ pc' # pc) =>
             \/ pc' = "ended" /\ outcome' = "failed" /\ logFilePath = "file"
                   /\ pc \in {"appendHookBlock", "appendSummary"}
             \/ pc' = CASE pc = "setEndTime"      -> "refresh"
                        [] pc = "refresh"         -> "hooks"
                        [] pc = "hooks"           -> "appendHookBlock"
                        [] pc = "appendHookBlock" ->
                              IF logFilePath = "file" THEN "appendSummary" ELSE "notify"
                        [] pc = "appendSummary"   -> "notify"
                        [] pc = "notify"          -> "ended"
                        [] OTHER                  -> pc ]_vars
    /\ []((cancelRequested /\ pc = "ended" /\ outcome = "completed") =>
            /\ hookCalls["afterBatch"] = 1
            /\ hookLogs[Len(hookLogs)].runAt = "afterBatch"
            /\ stats.processedFiles = i /\ stats.endTime = "now"
            /\ lastPublished = Result(stats) /\ latestResult = Result(stats)
            /\ logFilePath = "file" =>
                  LET n == Len(logFile)
                  IN  /\ n >= 3
                      /\ logFile[n] = [ kind |-> "summary", files |-> FilesLine(stats) ]
                      /\ logFile[n - 1].kind = "hookRuns"
                      /\ logFile[n - 1].title = "afterBatch"
                      /\ logFile[n - 1].lines = SubSeq(hookLogs, Len(hookLogs) - 1, Len(hookLogs))
                      /\ appendAttempts = n - 1)

\* a run over two files was cancelled during the first: it has ended with the
\* afterBatch hooks run, both closing blocks in the log and the statistics of
\* one processed file published
C37_Witness ==
    /\ pc = "ended" /\ outcome = "completed" /\ cancelRequested
    /\ logFilePath = "file" /\ hooks = AllPointsHooks
    /\ stats.totalFiles = 2 /\ stats.processedFiles = 1
    /\ hookCalls["afterBatch"] = 1
    /\ logFile[Len(logFile)].kind = "summary"
    /\ latestResult.defined /\ latestResult.stats.processedFiles = 1

(***************************************************************************)
(* C38.  The statistics that the conditions of the hooks see: at           *)
(* beforeBatch processedFiles = 0; at the beforeFile hooks of file i       *)
(* (counted from 0) processedFiles = i; at its onError hooks still i; at   *)
(* its afterFile hooks processedFiles = i + 1; at afterBatch               *)
(* processedFiles is the number of files processed.                        *)
(***************************************************************************)
C38_ProcessedFilesSeenByHooks ==
    /\ pc = "hooks" =>
          stats.processedFiles =
             CASE phase = "beforeBatch" -> 0
               [] phase = "beforeFile"  -> i
               [] phase = "onError"     -> i
               [] phase = "afterFile"   -> i + 1
               [] phase = "afterBatch"  -> hookCalls["afterFile"]
    /\ (pc = "hooks" /\ phase = "afterBatch") =>
          /\ stats.processedFiles = i
          /\ stats.processedFiles = stats.successfulFiles + stats.failedFiles
          /\ ~cancelRequested => stats.processedFiles = nFiles
    /\ (pc = "hooks" /\ phase = "beforeFile") =>
          /\ evaluateCondition(Cond_processedGe1, stats) <=> i >= 1
    /\ (pc = "hooks" /\ phase = "beforeBatch") =>
          /\ ~evaluateCondition(Cond_processedGe1, stats)
    /\ (HooksJustRun /\ phase = "beforeFile" /\ hooks = AllPointsHooks) =>
          (dispatched[1].target = "skipped" <=> i = 0)

\* the beforeFile hooks of the second file are about to run: `warm`, which
\* asks for processedFiles >= 1, will be executed
C38_Witness ==
    /\ pc = "hooks" /\ phase = "beforeFile" /\ i = 1
    /\ hooks = AllPointsHooks
    /\ stats.processedFiles = 1
    /\ ExecutedHooks(hooks, phase, stats) # {}

(***************************************************************************)
(* C39.  In every reachable state of a run errorCount = failedFiles: in    *)
(* the statistics of the run, and so in the statistics it publishes.       *)
(***************************************************************************)
C39_ErrorCountIsFailedFiles ==
    /\ stats.errorCount = stats.failedFiles
    /\ latestResult.defined => latestResult.stats.errorCount = latestResult.stats.failedFiles

\* the catch block has just counted the second failure of the run
C39_Witness ==
    /\ pc = "refresh" /\ phase = "onError" /\ i = 1
    /\ stats.failedFiles = 2 /\ stats.errorCount = 2
    /\ stats.successfulFiles = 0

(***************************************************************************)
(* C40.  Provided every external call returns or throws, every run that    *)
(* was started comes to its end, whatever statuses the agent reports --    *)
(* also when it reports "active" for ever, the wait of each file being     *)
(* given up after maxWaitTime.  A run that has ended has exited early      *)
(* (no agent, no file, no task description) with nothing published, or     *)
(* has gone through the completion step and notified the dashboard of its  *)
(* statistics; the one other end is that of C4, the uncaught error of a    *)
(* log append or of getTaskMessages while the log is open.                 *)
(***************************************************************************)
C40_EveryRunEnds ==
    /\ (pc # "ended") ~> (pc = "ended")
    /\ (pc = "pollStatus") ~> (pc # "pollStatus")
    /\ [](pc = "pollStatus" => elapsedTime < maxWaitTime)
    /\ [](pc = "ended" =>
            \/ /\ outcome \in {"failed", "noFiles", "noTask"}
               /\ stats = NoStats /\ hookLogs = << >>
               /\ agentCalls.startNewTask = 0
               /\ ~latestResult.defined
            \/ /\ outcome = "completed"
               /\ hookCalls["afterBatch"] = 1
               /\ stats.endTime = "now"
               /\ latestResult = Result(stats)
            \/ /\ outcome = "failed"
               /\ logFilePath = "file" /\ appendAttempts + agentCalls.getTaskMessages > 0
               /\ ~latestResult.defined)
    /\ [][ pc = "ended" => pc' = "ended" ]_vars

\* the agent reported "active" for the whole wait of the only file: the wait
\* was given up, the file counted, and the run has completed and published
C40_Witness ==
    /\ pc = "ended" /\ outcome = "completed"
    /\ nFiles = 1 /\ driverExit = "timeout" /\ waitExpired
    /\ polledStatus = "active"
    /\ stats.processedFiles = 1 /\ stats.successfulFiles = 1
    /\ latestResult.defined

=============================================================================
